---- MODULE Spec2Model ----
(***************************************************************************)
(* A model of typst-mcp's security layer: the sandbox policy builder, the  *)
(* sandbox session (detection, wrapping, clean-up), the conversion and     *)
(* compile tools with their temporary files, and the registry client with  *)
(* its SSRF-safe HTTP client.                                              *)
(*                                                                         *)
(* Strings are atomic in TLC, so text that the code takes apart (comma     *)
(* separated lists, shell command lines, URLs) is either a sequence of     *)
(* one-character strings or is split by a table over the bounded universe  *)
(* of values the model draws its inputs from.                              *)
(***************************************************************************)
EXTENDS Integers, Sequences, FiniteSets, TLC

\* ------------------------------------------------------------------------
\* Bounds of the model
\* ------------------------------------------------------------------------
\* Longest command line (sys.argv without the program name) drawn in Init.
MaxArgv == 2
\* Request slots: the tool invocations that can be in flight at once.
MaxTasks == 2
\* Most pages a snippet compiles to.
MaxPages == 2
\* Tool requests the server accepts in one run.
MaxRequests == 3
\* Registry calls the server accepts in one run.
MaxCalls == 2
\* Longest command text (in atoms) and longest argument list given to wrap_command.
MaxText == 4
MaxArgs == 2
\* Concurrent calls of build_docs_background.
MaxBuilders == 2
\* The longest wait_seconds of get_docs, in sleeps of half a second.
MaxWait == 2
\* Threads that run cache calls of package_docs.py at the same time.
MaxWorkers == 2

\* ------------------------------------------------------------------------
\* Generic helpers
\* ------------------------------------------------------------------------
NoneVal == "None"

\* Optional values that are not strings: None is the empty tuple, a value x is <<x>>.
NoneOpt == <<>>
Some(x) == <<x>>
IsSome(o) == Len(o) = 1
Get(o) == o[1]

Range(s) == {s[i] : i \in 1..Len(s)}

RECURSIVE SeqMap(_, _)
SeqMap(F(_), s) == IF s = <<>> THEN <<>> ELSE <<F(Head(s))>> \o SeqMap(F, Tail(s))

RECURSIVE SeqFilter(_, _)
SeqFilter(P(_), s) ==
    IF s = <<>> THEN <<>>
    ELSE (IF P(Head(s)) THEN <<Head(s)>> ELSE <<>>) \o SeqFilter(P, Tail(s))

\* All sequences over S of length at most n.
RECURSIVE SeqsUpTo(_, _)
SeqsUpTo(S, n) ==
    IF n = 0 THEN {<<>>}
    ELSE LET shorter == SeqsUpTo(S, n - 1)
         IN  shorter \cup {Append(s, x) : s \in {t \in shorter : Len(t) = n - 1}, x \in S}

\* list.index(x): the first position of x in s (x is in s).
IndexOf(s, x) == CHOOSE i \in 1..Len(s) : s[i] = x /\ \A j \in 1..(i - 1) : s[j] # x

\* ------------------------------------------------------------------------
\* The process environment: platform, home, environment variables, argv
\* ------------------------------------------------------------------------
HomeDir == "/home/user"
Cwd == "/work"
TempDir == "/tmp/typst-mcp"

Platforms == {"Linux", "Darwin", "Windows"}

\* sys.platform for a platform.system() value.
sys_platform(system) ==
    CASE system = "Darwin" -> "darwin"
      [] system = "Windows" -> "win32"
      [] OTHER -> "linux"

\* tempfile.gettempdir(): the platform's temporary directory.
gettempdir(system) ==
    CASE system = "Darwin" -> "/var/folders/xx/T"
      [] system = "Windows" -> "C:\\Users\\user\\AppData\\Local\\Temp"
      [] OTHER -> "/tmp"

Unset == "<unset>"

EnvNames == {"TYPST_MCP_DENY_READ", "TYPST_MCP_ALLOW_WRITE", "TYPST_MCP_ALLOW_DOMAINS",
             "TYPST_MCP_DISABLE_SANDBOX", "XDG_CACHE_HOME", "LOCALAPPDATA"}

EmptyEnv == [n \in EnvNames |-> Unset]

\* os.getenv(name): None when the variable is not set.
getenv(e, name) == IF e[name] = Unset THEN NoneVal ELSE e[name]

\* Python truthiness of an Optional[str].
Truthy(v) == v # NoneVal /\ v # ""

\* The '~'-prefixed paths of the model's universe, by their part after '~'.
TildeSuffixes ==
    {"/.ssh", "/.aws", "/.config/gcloud", "/.config/gh", "/.gnupg", "/.kube", "/.docker",
     "/.netrc", "/.npmrc", "/.pypirc", "/Library/Keychains", "/.password-store",
     "/.vault-token", "/.config/op", "/.config/hub", "/.local/share/keyrings", "/.secrets",
     "/Library/Caches/typst", "/.cache", "/docs", "/private"}

\* os.path.expanduser: a leading '~' becomes the home directory.
expanduser(p) ==
    IF p \in {"~" \o s : s \in TildeSuffixes}
    THEN HomeDir \o (CHOOSE s \in TildeSuffixes : p = "~" \o s)
    ELSE p

\* str.split(","), on the comma-separated values of the model's universe.
SplitComma(s) ==
    CASE s = "/data,~/docs" -> <<"/data", "~/docs">>
      [] s = "/data, ~/.ssh" -> <<"/data", " ~/.ssh">>
      [] s = " , " -> <<" ", " ">>
      [] s = "/secret, ~/private,," -> <<"/secret", " ~/private", "", "">>
      [] OTHER -> <<s>>

\* str.strip(), on the fields SplitComma yields.
Strip(s) ==
    CASE s = " ~/.ssh" -> "~/.ssh"
      [] s = " ~/private" -> "~/private"
      [] s = " " -> ""
      [] OTHER -> s

NonEmpty(s) == s # ""

\* [p.strip() for p in value.split(",") if p.strip()]
ParsePathList(value) == SeqFilter(NonEmpty, SeqMap(Strip, SplitComma(value)))

\* os.path.join(a, b) for a relative b.
path_join(system, a, b) ==
    IF a = "" THEN b
    ELSE IF system = "Windows" THEN a \o "\\" \o b ELSE a \o "/" \o b

\* ------------------------------------------------------------------------
\* Sandbox policy builder (sandbox.py, class SandboxConfig)
\* ------------------------------------------------------------------------
ALWAYS_DENY_READ ==
    << "~/.ssh", "~/.aws", "~/.config/gcloud", "~/.config/gh", "~/.gnupg", "~/.kube",
       "~/.docker", ".env", ".git/config", "~/.netrc", "~/.npmrc", "~/.pypirc",
       "/etc/passwd", "/etc/shadow", "/etc/sudoers", "/etc/ssh", "/proc", "/sys", "/dev",
       "/run/secrets", "/var/run/secrets", "/var/run/docker.sock", "/run/docker.sock",
       "/Library/Keychains", "~/Library/Keychains", "~/.password-store", "~/.vault-token",
       "~/.config/op", "~/.config/hub", "~/.local/share/keyrings", "~/.secrets",
       "*.pem", "*.key", "*_rsa", "*_ed25519", "*_ecdsa" >>

\* self.always_deny_read
always_deny_read == SeqMap(expanduser, ALWAYS_DENY_READ)

\* SandboxConfig._get_typst_cache_dirs
get_typst_cache_dirs(system, e) ==
    LET cache_dirs ==
            IF sys_platform(system) = "darwin"
            THEN <<expanduser("~/Library/Caches/typst")>>
            ELSE IF sys_platform(system) = "win32"
            THEN LET local_app_data ==
                         IF e["LOCALAPPDATA"] = Unset THEN "" ELSE e["LOCALAPPDATA"]
                 IN  IF local_app_data # ""
                     THEN <<path_join(system, local_app_data, "typst")>>
                     ELSE <<>>
            ELSE LET xdg_cache ==
                         IF e["XDG_CACHE_HOME"] = Unset
                         THEN expanduser("~/.cache")
                         ELSE e["XDG_CACHE_HOME"]
                 IN  <<path_join(system, xdg_cache, "typst")>>
    IN  SeqFilter(NonEmpty, cache_dirs)

\* SandboxConfig._load_custom_rules: the deny_read list after the environment
\* has been read. TYPST_MCP_ALLOW_WRITE and TYPST_MCP_ALLOW_DOMAINS only print
\* a warning.
load_custom_rules(read_whitelist_mode, deny_read, e) ==
    IF ~read_whitelist_mode /\ Truthy(getenv(e, "TYPST_MCP_DENY_READ"))
    THEN deny_read \o SeqMap(expanduser, ParsePathList(getenv(e, "TYPST_MCP_DENY_READ")))
    ELSE deny_read

\* SandboxConfig.__init__; read_allow_only is NoneOpt or Some(sequence of paths).
SandboxConfig(temp_dir, current_dir, read_allow_only, system, e) ==
    LET read_whitelist_mode == IsSome(read_allow_only)
    IN  [ temp_dir            |-> temp_dir,
          current_dir         |-> current_dir,
          always_deny_read    |-> always_deny_read,
          read_whitelist_mode |-> read_whitelist_mode,
          allow_read          |-> IF read_whitelist_mode
                                  THEN Some(SeqMap(expanduser, Get(read_allow_only)))
                                  ELSE NoneOpt,
          deny_read           |-> load_custom_rules(read_whitelist_mode, always_deny_read, e),
          allow_write         |-> <<current_dir, gettempdir(system), temp_dir>>
                                      \o get_typst_cache_dirs(system, e),
          allowed_domains     |-> <<"packages.typst.org", "*.github.com">> ]

\* A denyRead list that leaves out what the whitelist names.
SrtDenyReadLessAllowed(config) ==
    IF config.read_whitelist_mode
    THEN LET NotAllowed(p) == p \notin Range(Get(config.allow_read))
         IN  SeqFilter(NotAllowed, config.always_deny_read)
    ELSE config.deny_read

\* The filesystem.denyRead list of to_srt_settings.
SrtDenyRead(config) ==
    IF config.read_whitelist_mode THEN config.always_deny_read ELSE config.deny_read

\* SandboxConfig.to_srt_settings
to_srt_settings(config) ==
    [ filesystem |->
          IF config.read_whitelist_mode
          THEN [ allowRead  |-> Get(config.allow_read),
                 denyRead   |-> SrtDenyRead(config),
                 allowWrite |-> config.allow_write ]
          ELSE [ denyRead   |-> SrtDenyRead(config),
                 allowWrite |-> config.allow_write ],
      network |-> [ allowedDomains |-> config.allowed_domains,
                    deniedDomains  |-> <<>> ] ]

\* ------------------------------------------------------------------------
\* State
\* ------------------------------------------------------------------------
VARIABLES
    \* the process's surroundings, fixed at start
    platform,     \* platform.system()
    argv,         \* sys.argv
    env,          \* os.environ
    onPath,       \* the executables shutil.which finds
    probe,        \* how "npx -y <pinned package> --version" ends
    osres,        \* how the OS answers while the settings file is created
    caller,       \* the command a caller of wrap_command / run_sandboxed passes
    \* sandbox.py module globals and the settings file on disk
    sandbox,      \* _sandbox: NoneOpt or Some(TypestSandbox fields)
    strict_mode,  \* _strict_mode
    artifact,     \* the srt settings file
    \* server.py
    phase,        \* "boot", "serving", "fatal" (start-up raised)
    last_call,    \* the last wrap_command / run_sandboxed call and its result
    \* the conversion and compile tools of server.py
    task,         \* per request slot: the tool invocation in flight
    fs,           \* the files of the scratch directory: the snippet each derives from
    served,       \* tool requests accepted so far
    docs_state,   \* _docs_state with its lock, and the calls of build_docs_background and get_docs
    \* package_docs.py: the registry client and its caches
    remote,       \* what the package repository holds and whether it answers
    reg,          \* the registry call in progress
    pkg_mem,      \* _package_cache: the keys stored, with the document of each
    pkg_disk,     \* the files of the package cache directory
    calls,        \* registry calls accepted so far
    workers,      \* per worker thread: the cache call it runs (build or cache-only lookup)
    \* package_docs.py: the client create_safe_client builds
    http,         \* the client request in progress
    wire,         \* the last request handed to the wrapped transport
    fetches,      \* client requests accepted so far
    fetch,        \* the fetch_with_size_limit call in progress
    verdict       \* the last text put to a check of texts, and the answers

vars == <<platform, argv, env, onPath, probe, osres, caller, sandbox, strict_mode, artifact,
          phase, last_call, task, fs, served, docs_state, remote, reg, pkg_mem, pkg_disk, calls,
          workers, http, wire, fetches, fetch, verdict>>

surroundings == <<platform, argv, env, onPath, probe, osres, caller>>
sessionVars == <<sandbox, strict_mode, artifact, phase, last_call>>
toolVars == <<task, fs, served, docs_state>>
registryVars == <<remote, reg, pkg_mem, pkg_disk, calls, workers>>
httpVars == <<http, wire, fetches, fetch, verdict>>

\* The registry client at rest: no call in progress and both caches empty.
\* if version: (a str that is not empty)
HasVersion(version) == IsSome(version) /\ Get(version) # <<>>

LatestTag == <<"latest">>

\* cache_key = f"{package_name}@{version if version else 'latest'}"
CacheKey(name, version) ==
    [name |-> name, tag |-> IF HasVersion(version) THEN Get(version) ELSE LatestTag]

IdleCall ==
    [op |-> "none", pc |-> "idle", name |-> <<>>, given |-> NoneOpt, version |-> NoneOpt,
     path |-> <<>>,
     key |-> CacheKey(<<>>, NoneOpt), todo |-> <<>>, validated |-> {}, sent |-> {},
     full |-> FALSE, outcome |-> "none", clause |-> "none", result |-> NoneOpt,
     found |-> {}, trace |-> <<>>, timeout |-> 0, elapsed |-> 0]

\* The worker threads that anyio.to_thread.run_sync runs cache calls in, and a
\* thread with no call.
Workers == 1..MaxWorkers
NoDoc == [version |-> <<>>, built_by |-> 0, complete |-> FALSE]
IdleWorker ==
    [op |-> "none", pc |-> "idle", name |-> <<>>, version |-> <<>>, touched |-> {},
     saw |-> "none", result |-> [kind |-> "none", doc |-> NoDoc]]

RegistryIdle ==
    /\ reg = IdleCall
    /\ pkg_mem = {}
    /\ pkg_disk = {}
    /\ calls = 0
    /\ workers = [w \in Workers |-> IdleWorker]

\* The package repository: whether it answers and how it fails ("none",
\* "timeout", "transport", "unsafe" for an answer the URL filter rejects,
\* "too_large" for a body over the size limit), how long each answer takes,
\* the version directories of the package, the files of a version, and the
\* entries of examples/ and docs/.
NoRemote ==
    [up |-> FALSE, fault |-> "transport", delay |-> 0, versions |-> <<>>, files |-> {},
     examples |-> <<>>, docs |-> <<>>]

RegistryUnused == RegistryIdle /\ remote = NoRemote

\* The client at rest: no request in progress.
IdleRequest == [pc |-> "idle", url |-> <<>>, hops |-> 0, resp |-> NoneOpt, outcome |-> "none"]

\* No fetch_with_size_limit call in progress.
IdleFetch == [pc |-> "idle"]

RequestsIdle ==
    /\ http = IdleRequest
    /\ wire = NoneOpt
    /\ fetches = 0

HttpIdle == RequestsIdle /\ fetch = IdleFetch /\ verdict = NoneOpt

\* ------------------------------------------------------------------------
\* Sandbox session (sandbox.py, class TypestSandbox)
\* ------------------------------------------------------------------------
SANDBOX_RUNTIME_PACKAGE == "@anthropic-ai/sandbox-runtime"
SANDBOX_RUNTIME_VERSION == "0.0.15"
pinned_package == SANDBOX_RUNTIME_PACKAGE \o "@" \o SANDBOX_RUNTIME_VERSION

\* The path tempfile.mkstemp(prefix="srt-settings-", suffix=".json") returns.
SettingsPath == TempDir \o "/srt-settings-k3x9.json"

NoFile == [exists |-> FALSE, dir |-> NoneVal, excl |-> FALSE, mode |-> NoneVal,
           immutable |-> FALSE, locked |-> FALSE, content |-> NoneOpt]

\* TypestSandbox.__init__
TypestSandbox(temp_dir, read_allow_only, disable_sandbox, system, e) ==
    [ temp_dir           |-> temp_dir,
      sandboxed          |-> FALSE,
      sandbox_method     |-> NoneVal,
      config             |-> SandboxConfig(temp_dir, Cwd, read_allow_only, system, e),
      settings_file      |-> NoneVal,
      settings_immutable |-> FALSE,
      lock_fd            |-> NoneVal,
      disabled           |-> disable_sandbox ]

AddKey(f, k, v) == [x \in DOMAIN f \cup {k} |-> IF x = k THEN v ELSE f[x]]

\* A settings file left with the mode it is written under.
SettingsModeWritable(is_windows) == IF is_windows THEN "acl" ELSE "0o600"

\* The mode the settings file is left with: os.fchmod(fd, 0o400) on Unix, an
\* ACL on Windows.
SettingsMode(is_windows) == IF is_windows THEN "acl" ELSE "0o400"

\* TypestSandbox._create_settings_file: the session and the file afterwards, and
\* the exception the call raised ("none" when it returned). r says how the OS
\* answered: r.mk is "ok", "dir_missing" (mkstemp raises FileNotFoundError: the
\* scratch directory is gone), "mkstemp_fails" (any other OSError) or
\* "write_fails" (the handler closes the descriptor and raises RuntimeError,
\* and the second os.close(fd) of the finally clause raises OSError in its
\* place); r.fchflags, r.flock and r.setflag say whether fchflags(),
\* flock() and chflags/chattr/icacls succeeded.
create_settings_file(sb, system, r) ==
    LET is_windows == system = "Windows"
        path       == SettingsPath
        settings   == to_srt_settings(sb.config)
        content    == [settings EXCEPT
                          !.filesystem = AddKey(@, "denyWrite", <<path>>)]
        by_fd      == ~is_windows /\ system = "Darwin" /\ r.fchflags
        lock       == ~is_windows /\ system = "Linux" /\ r.flock
        by_command == IF is_windows THEN r.setflag
                      ELSE ~by_fd /\ system \in {"Darwin", "Linux"} /\ r.setflag
        immutable  == by_fd \/ by_command
    IN  IF r.mk # "ok"
        THEN [raised |-> CASE r.mk = "dir_missing" -> "FileNotFoundError"
                           [] OTHER -> "OSError",
              sb |-> sb, file |-> NoFile]
        ELSE [raised |-> "none",
              sb     |-> [sb EXCEPT !.settings_file = path,
                                    !.settings_immutable = immutable,
                                    !.lock_fd = IF lock THEN "fd" ELSE NoneVal],
              file   |-> [exists    |-> TRUE,
                          dir       |-> sb.temp_dir,
                          excl      |-> TRUE,
                          mode      |-> SettingsMode(is_windows),
                          immutable |-> immutable,
                          locked    |-> lock,
                          content   |-> Some(content)]]

\* The tail of TypestSandbox.initialize once a helper was found. The npx branch
\* runs inside "try: ... except (TimeoutExpired, CalledProcessError,
\* FileNotFoundError): pass", so there a FileNotFoundError of
\* _create_settings_file falls through to the fallback and initialize returns
\* False, with sandboxed and sandbox_method already set.
Enable(sb, method, system, r) ==
    LET made == create_settings_file(
                    [sb EXCEPT !.sandboxed = TRUE, !.sandbox_method = method], system, r)
    IN  [ret  |-> CASE made.raised = "none" -> "True"
                    [] made.raised = "FileNotFoundError" /\ method = "srt-npx" -> "False"
                    [] OTHER -> "raise",
         sb   |-> made.sb,
         file |-> made.file]

\* TypestSandbox.initialize: what it returns ("True", "False" or "raise"), the
\* session and the settings file afterwards.
initialize(sb, which, pr, system, r) ==
    IF sb.disabled
    THEN [ret |-> "False", sb |-> sb, file |-> NoFile]
    ELSE IF "srt" \in which
    THEN Enable(sb, "srt-installed", system, r)
    ELSE IF "npx" \in which /\ pr = "exit0"
    THEN Enable(sb, "srt-npx", system, r)
    ELSE [ret |-> "False", sb |-> sb, file |-> NoFile]

\* initialize_sandbox, the parsing of --read-allow-only.
parse_read_allow_only(av) ==
    IF "--read-allow-only" \in Range(av)
    THEN LET idx == IndexOf(av, "--read-allow-only")
         IN  IF idx + 1 <= Len(av) THEN Some(ParsePathList(av[idx + 1])) ELSE NoneOpt
    ELSE NoneOpt

\* initialize_sandbox with the fail-fast check made for Linux only.
initialize_sandbox_linux_only(system, av, e, which, pr, r) ==
    LET strict          == "--strict-sandbox" \in Range(av)
        read_allow_only == parse_read_allow_only(av)
        disable_sandbox == "--disable-sandbox" \in Range(av)
        fresh           == TypestSandbox(TempDir, read_allow_only, disable_sandbox, system, e)
        init            == initialize(fresh, which, pr, system, r)
        fatal           == init.ret = "False" /\ ~disable_sandbox /\ system = "Linux"
    IN  [ ret     |-> IF fatal THEN "raise" ELSE init.ret,
          initialized |-> init.ret,
          sandbox |-> Some(init.sb),
          strict  |-> strict,
          file    |-> init.file ]

\* initialize_sandbox: the module globals and the settings file afterwards, and
\* whether it returned ("True"/"False") or raised ("raise").
initialize_sandbox(system, av, e, which, pr, r) ==
    LET strict          == "--strict-sandbox" \in Range(av)
        read_allow_only == parse_read_allow_only(av)
        disable_sandbox == "--disable-sandbox" \in Range(av)
        fresh           == TypestSandbox(TempDir, read_allow_only, disable_sandbox, system, e)
        init            == initialize(fresh, which, pr, system, r)
        fatal           == init.ret = "False" /\ ~disable_sandbox
                               /\ system \in {"Linux", "Darwin"}
    IN  [ ret     |-> IF fatal THEN "raise" ELSE init.ret,
          initialized |-> init.ret,
          sandbox |-> Some(init.sb),
          strict  |-> strict,
          file    |-> init.file ]

\* async_main up to the start of serving: initialize_sandbox(temp_dir); an
\* exception ends the process before mcp.run_async().
Startup ==
    /\ phase = "boot"
    /\ LET res == initialize_sandbox(platform, argv, env, onPath, probe, osres)
       IN  /\ sandbox' = res.sandbox
           /\ strict_mode' = (strict_mode \/ res.strict)
           /\ artifact' = res.file
           /\ phase' = IF res.ret = "raise" THEN "fatal" ELSE "serving"
           /\ last_call' = [op |-> "initialize", ret |-> res.initialized]
    /\ UNCHANGED <<surroundings, toolVars, registryVars, httpVars>>

\* ------------------------------------------------------------------------
\* Commands and shell quoting
\* ------------------------------------------------------------------------
\* A command is [str |-> FALSE, v |-> <<argument strings>>] (a Python list) or
\* [str |-> TRUE, v |-> text] (a Python str). A text is a sequence of atoms: one
\* of the characters below, or a word of shell-safe characters that the model
\* never takes apart ("srt", a path).
ListCmd(args) == [str |-> FALSE, v |-> args]
StrCmd(text) == [str |-> TRUE, v |-> text]

SQ == "'"
DQ == "\""
SP == " "
UnsafeAtoms == {SP, SQ, DQ}

\* shlex.split (POSIX mode, no escapes in the alphabet): [ok, tokens]; ok is
\* FALSE for "No closing quotation".
RECURSIVE ShlexScan(_, _, _, _)
ShlexScan(text, mode, cur, out) ==
    IF text = <<>>
    THEN CASE mode = "none" -> [ok |-> TRUE, tokens |-> out]
           [] mode = "word" -> [ok |-> TRUE, tokens |-> Append(out, cur)]
           [] OTHER -> [ok |-> FALSE, tokens |-> <<>>]
    ELSE LET a == Head(text)
             rest == Tail(text)
         IN  CASE mode = "sq" ->
                    IF a = SQ THEN ShlexScan(rest, "word", cur, out)
                    ELSE ShlexScan(rest, "sq", Append(cur, a), out)
               [] mode = "dq" ->
                    IF a = DQ THEN ShlexScan(rest, "word", cur, out)
                    ELSE ShlexScan(rest, "dq", Append(cur, a), out)
               [] OTHER ->
                    IF a = SP
                    THEN IF mode = "word" THEN ShlexScan(rest, "none", <<>>, Append(out, cur))
                         ELSE ShlexScan(rest, "none", <<>>, out)
                    ELSE IF a = SQ THEN ShlexScan(rest, "sq", cur, out)
                    ELSE IF a = DQ THEN ShlexScan(rest, "dq", cur, out)
                    ELSE ShlexScan(rest, "word", Append(cur, a), out)

shlex_split(text) == ShlexScan(text, "none", <<>>, <<>>)

\* s.replace("'", "'\"'\"'")
RECURSIVE ReplaceQuotes(_)
ReplaceQuotes(tok) ==
    IF tok = <<>> THEN <<>>
    ELSE (IF Head(tok) = SQ THEN <<SQ, DQ, SQ, DQ, SQ>> ELSE <<Head(tok)>>)
             \o ReplaceQuotes(Tail(tok))

\* shlex.quote
shlex_quote(tok) ==
    IF tok = <<>> THEN <<SQ, SQ>>
    ELSE IF Range(tok) \cap UnsafeAtoms = {} THEN tok
    ELSE <<SQ>> \o ReplaceQuotes(tok) \o <<SQ>>

\* " ".join(shlex.quote(arg) for arg in tokens)
RECURSIVE JoinQuoted(_)
JoinQuoted(tokens) ==
    IF tokens = <<>> THEN <<>>
    ELSE IF Len(tokens) = 1 THEN shlex_quote(tokens[1])
    ELSE shlex_quote(Head(tokens)) \o <<SP>> \o JoinQuoted(Tail(tokens))

Word(s) == <<s>>

\* A helper invocation whose npx form names the package without its version.
SandboxPrefixUnpinned(method, settings_file) ==
    IF method = "srt-installed"
    THEN <<"srt", "--settings", settings_file, "--">>
    ELSE <<"npx", "-y", SANDBOX_RUNTIME_PACKAGE, "--settings", settings_file, "--">>

\* The helper invocation that wrap_command prefixes, for an enforcing method.
SandboxPrefix(method, settings_file) ==
    IF method = "srt-installed"
    THEN <<"srt", "--settings", settings_file, "--">>
    ELSE <<"npx", "-y", pinned_package, "--settings", settings_file, "--">>

\* TypestSandbox.wrap_command: [raised, out]; raised is shlex.split's ValueError.
sb_wrap_command(sb, command) ==
    IF ~sb.sandboxed \/ sb.settings_file = NoneVal
    THEN [raised |-> FALSE, out |-> command]
    ELSE IF command.str /\ ~shlex_split(command.v).ok
    THEN [raised |-> TRUE, out |-> command]
    ELSE IF sb.sandbox_method \notin {"srt-installed", "srt-npx"}
    THEN [raised |-> FALSE, out |-> command]
    ELSE LET prefix == SandboxPrefix(sb.sandbox_method, sb.settings_file)
         IN  IF command.str
             THEN [raised |-> FALSE,
                   out |-> StrCmd(JoinQuoted(SeqMap(Word, prefix)
                                                 \o shlex_split(command.v).tokens))]
             ELSE [raised |-> FALSE, out |-> ListCmd(prefix \o command.v)]

\* The module-level wrap_command(command).
wrap_command(sbx, command) ==
    IF ~IsSome(sbx) THEN [raised |-> FALSE, out |-> command]
    ELSE sb_wrap_command(Get(sbx), command)

\* A run_sandboxed that hands the command to subprocess.run as it came.
run_unwrapped(sbx, command) == [raised |-> FALSE, ran |-> command, shell |-> command.str]

\* The module-level run_sandboxed(command): what is handed to subprocess.run
\* (argv or command line, and shell=True for a str), unless wrapping raised.
run_sandboxed(sbx, command) ==
    LET wrapped == wrap_command(sbx, command)
    IN  [raised |-> wrapped.raised, ran |-> wrapped.out, shell |-> wrapped.out.str]

\* TypestSandbox.cleanup: the session and the settings file afterwards. how is
\* "ok" (the flag was removed), "fails" (the command exits non-zero, which is
\* not checked) or "raises" (the command is missing or times out).
cleanup(sb, file, system, how) ==
    IF sb.settings_file = NoneVal \/ ~sb.settings_immutable
    THEN [sb |-> sb, file |-> file]
    ELSE IF system \in {"Darwin", "Linux"} /\ how = "raises"
    THEN [sb |-> sb, file |-> file]
    ELSE [sb   |-> [sb EXCEPT !.settings_immutable = FALSE,
                              !.lock_fd = IF system = "Linux" THEN NoneVal ELSE @],
          file |-> [file EXCEPT
                       !.immutable = IF system \in {"Darwin", "Linux"} /\ how = "ok"
                                     THEN FALSE ELSE @,
                       !.locked = IF system = "Linux" THEN FALSE ELSE @]]

\* ------------------------------------------------------------------------
\* The session's operations while the server runs
\* ------------------------------------------------------------------------
TypstCompile == ListCmd(<<"typst", "compile", "main.typ">>)
CopyCmd == ListCmd(<<"cp", "a.pdf", "b.pdf">>)
EchoCmd == StrCmd(<<"echo", SP, SQ, "a", SP, "b", SQ>>)
SessionCommands == {TypstCompile, CopyCmd, EchoCmd}

NoCall == [op |-> "none"]

WrapCommand ==
    /\ phase = "serving"
    /\ last_call' = [op |-> "wrap", cmd |-> caller, res |-> wrap_command(sandbox, caller)]
    /\ UNCHANGED <<surroundings, sandbox, strict_mode, artifact, phase, toolVars, registryVars, httpVars>>

RunSandboxed ==
    /\ phase = "serving"
    /\ last_call' = [op |-> "run", cmd |-> caller, res |-> run_sandboxed(sandbox, caller)]
    /\ UNCHANGED <<surroundings, sandbox, strict_mode, artifact, phase, toolVars, registryVars, httpVars>>

Cleanup ==
    /\ phase # "boot"
    /\ IsSome(sandbox)
    /\ \E how \in {"ok", "fails", "raises"} :
           LET res == cleanup(Get(sandbox), artifact, platform, how)
           IN  /\ sandbox' = Some(res.sb)
               /\ artifact' = res.file
    /\ last_call' = [op |-> "cleanup"]
    /\ UNCHANGED <<surroundings, strict_mode, phase, toolVars, registryVars, httpVars>>

\* ------------------------------------------------------------------------
\* The conversion and compile tools (server.py)
\* ------------------------------------------------------------------------
Tasks == 1..MaxTasks
Pages == 1..MaxPages

\* A snippet is named by the request slot that submitted it; a file's content
\* is the snippet it was written from or compiled from, 0 when it does not exist.
Absent == 0

ToolKinds == {"latex", "check", "image", "pdf"}

TexFile == "main.tex"
TypFile == "main.typ"
CheckPdf == "main.pdf"
PageFile(n) == "page" \o ToString(n) \o ".png"
\* uuid.uuid4().hex[:8]: a fresh name per invocation.
UniqueTyp(t) == "main_" \o ToString(t) \o ".typ"
UniquePdf(t) == "output_" \o ToString(t) \o ".pdf"

Files ==
    {TexFile, TypFile, CheckPdf} \cup {PageFile(n) : n \in Pages}
        \cup {UniqueTyp(t) : t \in Tasks} \cup {UniquePdf(t) : t \in Tasks}

InTemp(name) == TempDir \o "/" \o name

\* The file a tool writes the snippet to.
InputFile(kind, t) ==
    CASE kind = "latex" -> TexFile
      [] kind = "pdf" -> UniqueTyp(t)
      [] OTHER -> TypFile

\* The files the tool's command writes, for a snippet of n pages.
OutputFiles(kind, t, n) ==
    CASE kind = "latex" -> {TypFile}
      [] kind = "check" -> {CheckPdf}
      [] kind = "image" -> {PageFile(i) : i \in 1..n}
      [] OTHER -> {UniquePdf(t)}

\* The command each tool passes to run_sandboxed.
ToolCommand(kind, t) ==
    CASE kind = "latex" ->
             ListCmd(<<"pandoc", "--sandbox", InTemp(TexFile), "--from=latex", "--to=typst",
                       "--output", InTemp(TypFile)>>)
      [] kind = "check" -> ListCmd(<<"typst", "compile", InTemp(TypFile)>>)
      [] kind = "image" ->
             ListCmd(<<"typst", "compile", InTemp(TypFile), "--format", "png", "--ppi", "500",
                       InTemp("page{0p}.png")>>)
      [] OTHER -> ListCmd(<<"typst", "compile", InTemp(UniqueTyp(t)), InTemp(UniquePdf(t))>>)

\* get_typst_root_args(temp_dir): the arguments that pin typst's project root.
\* No tool adds them to its command.
get_typst_root_args(strict, temp_dir) ==
    IF strict THEN <<"--root", temp_dir>> ELSE <<>>

\* path.replace("/", "\\") for the paths of the model.
OutPath == "/work/out.pdf"
WinPath(p) ==
    IF p = OutPath THEN "\\work\\out.pdf"
    ELSE IF \E f \in Files : p = InTemp(f)
    THEN "\\tmp\\typst-mcp\\" \o (CHOOSE f \in Files : p = InTemp(f))
    ELSE p

\* secure_copy_file's command.
CopyCommand(system, src, dst) ==
    IF system = "Windows" THEN ListCmd(<<"cmd", "/c", "copy", "/Y", WinPath(src), WinPath(dst)>>)
    ELSE ListCmd(<<"cp", src, dst>>)

\* How subprocess.run(..., check=True, timeout=...) ends: it returns, or raises
\* CalledProcessError (the command or the sandbox refused), TimeoutExpired, or
\* FileNotFoundError (no such executable).
CommandEnds == {"ok", "CalledProcessError", "TimeoutExpired", "FileNotFoundError"}

\* A secure_copy_file that does not look for the destination afterwards.
CopyRaisesUnverified(last_end, dest_exists) == last_end

\* What secure_copy_file raises once its last command has ended.
CopyRaises(last_end, dest_exists) ==
    IF last_end # "ok" THEN last_end
    ELSE IF ~dest_exists THEN "RuntimeError"
    ELSE "ok"

\* secure_copy_file(source, destination): the commands it ran through
\* run_sandboxed, each with what was handed to subprocess.run, and what it
\* raised ("ok" when it returned, "SourceMissing" for its own
\* FileNotFoundError). first and second say how the commands end, dest_exists
\* whether the destination exists afterwards.
secure_copy_file(sbx, system, source, destination, source_exists, first, second, dest_exists) ==
    LET Ran(c) == [cmd |-> c, ran |-> run_sandboxed(sbx, c).ran]
        copy   == CopyCommand(system, source, destination)
        cp     == CopyCommand("Linux", source, destination)
    IN  IF ~source_exists
        THEN [raised |-> "SourceMissing", cmds |-> <<>>]
        ELSE IF system = "Windows" /\ first \in {"CalledProcessError", "FileNotFoundError"}
        THEN [raised |-> CopyRaises(second, dest_exists), cmds |-> <<Ran(copy), Ran(cp)>>]
        ELSE [raised |-> CopyRaises(first, dest_exists), cmds |-> <<Ran(copy)>>]

IdleTask ==
    [kind |-> "none", pc |-> "idle", npages |-> 1, mode |-> "embedded", cmds |-> <<>>,
     read_in |-> Absent, page_files |-> <<>>, result |-> {}, status |-> "none"]

\* build_docs_background, one record per call in progress: where it is, whether
\* it was given a ctx, and how its work ended.
Builders == 1..MaxBuilders
IdleBuild == [pc |-> "idle", ctx |-> FALSE, how |-> "none"]

\* get_docs: where the call is, its wait_seconds and the time it has waited (in
\* sleeps of half a second), and what it returned or raised.
IdleWait == [pc |-> "idle", wait |-> 0, waited |-> 0, result |-> "none"]

\* _docs_state as the module creates it: nothing loaded, nothing building.
DocsIdle ==
    [loaded |-> FALSE, building |-> FALSE, error |-> FALSE, docs |-> FALSE, lock |-> 0,
     build |-> [b \in Builders |-> IdleBuild], get |-> IdleWait]

ToolsIdle ==
    /\ task = [t \in Tasks |-> IdleTask]
    /\ fs = [f \in Files |-> Absent]
    /\ served = 0
    /\ docs_state = DocsIdle

Finish(t, status) == [task EXCEPT ![t].pc = "done", ![t].status = status]

\* A request arrives: the length check, then the handler is about to write its
\* input file. A snippet over the limit is refused at once.
Begin(t) ==
    /\ phase = "serving"
    /\ task[t].pc = "idle"
    /\ served < MaxRequests
    /\ served' = served + 1
    /\ \E kind \in ToolKinds, n \in Pages, mode \in {"embedded", "path"}, too_large \in BOOLEAN :
           /\ (kind # "image" => n = 1)
           /\ (kind # "pdf" => mode = "embedded")
           /\ task' = [task EXCEPT ![t] =
                          [IdleTask EXCEPT !.kind = kind, !.npages = n, !.mode = mode,
                                           !.pc = IF too_large THEN "done" ELSE "write",
                                           !.status = IF too_large THEN "rejected" ELSE "none"]]
    /\ UNCHANGED <<surroundings, registryVars, httpVars, sessionVars, fs, docs_state>>

\* write_text(snippet) to the input file.
WriteInput(t) ==
    /\ task[t].pc = "write"
    /\ fs' = [fs EXCEPT ![InputFile(task[t].kind, t)] = t]
    /\ task' = [task EXCEPT ![t].pc = "run"]
    /\ UNCHANGED <<surroundings, registryVars, httpVars, sessionVars, served, docs_state>>

\* Where a tool goes after its command: by tool and by how the command ended
\* ("ok", "fail": CalledProcessError, "timeout": TimeoutExpired).
AfterRun(kind, outcome) ==
    CASE kind = "pdf" -> IF outcome = "ok" THEN "read" ELSE "cleanup"
      [] outcome # "ok" -> "done"
      [] kind = "latex" -> "read"
      [] kind = "image" -> "scan"
      [] OTHER -> "done"

\* run_sandboxed(command) in a worker thread: the external command reads the
\* input file as it is now and, when it succeeds, writes its output files.
RunCommand(t) ==
    /\ task[t].pc = "run"
    /\ LET kind == task[t].kind
           cmd  == ToolCommand(kind, t)
           call == run_sandboxed(sandbox, cmd)
           seen == fs[InputFile(kind, t)]
       IN  \E outcome \in {"ok", "fail", "timeout"} :
               /\ (seen = Absent => outcome = "fail")
               /\ fs' = IF outcome = "ok"
                        THEN [f \in Files |->
                                 IF f \in OutputFiles(kind, t, task[seen].npages)
                                 THEN seen ELSE fs[f]]
                        ELSE fs
               /\ task' = [task EXCEPT
                              ![t].cmds = Append(@, [cmd |-> cmd, ran |-> call.ran]),
                              ![t].read_in = seen,
                              ![t].pc = AfterRun(kind, outcome),
                              ![t].result = IF kind = "check" /\ outcome # "timeout"
                                            THEN {seen} ELSE {},
                              ![t].status =
                                  IF kind = "check"
                                  THEN (CASE outcome = "ok" -> "VALID"
                                          [] outcome = "fail" -> "INVALID"
                                          [] OTHER -> "error")
                                  ELSE IF outcome = "ok" THEN "none" ELSE "error"]
    /\ UNCHANGED <<surroundings, registryVars, httpVars, sessionVars, served, docs_state>>

\* The same call when the command fails, or is killed at its timeout, after it
\* has written some of its output files.
RunCommandKilled(t) ==
    /\ task[t].pc = "run"
    /\ fs[InputFile(task[t].kind, t)] # Absent
    /\ LET kind == task[t].kind
           cmd  == ToolCommand(kind, t)
           call == run_sandboxed(sandbox, cmd)
           seen == fs[InputFile(kind, t)]
       IN  \E outcome \in {"fail", "timeout"},
              left \in SUBSET OutputFiles(kind, t, task[seen].npages) :
               /\ left # {}
               /\ fs' = [f \in Files |-> IF f \in left THEN seen ELSE fs[f]]
               /\ task' = [task EXCEPT
                              ![t].cmds = Append(@, [cmd |-> cmd, ran |-> call.ran]),
                              ![t].read_in = seen,
                              ![t].pc = AfterRun(kind, outcome),
                              ![t].result = IF kind = "check" /\ outcome # "timeout"
                                            THEN {seen} ELSE {},
                              ![t].status =
                                  IF kind = "check"
                                  THEN (IF outcome = "fail" THEN "INVALID" ELSE "error")
                                  ELSE "error"]
    /\ UNCHANGED <<surroundings, registryVars, httpVars, sessionVars, served, docs_state>>

\* latex_snippet_to_typst reads main.typ; typst_snippet_to_pdf reads its PDF.
ReadOutput(t) ==
    /\ task[t].pc = "read"
    /\ LET kind == task[t].kind
           out  == IF kind = "latex" THEN TypFile ELSE UniquePdf(t)
       IN  task' = [task EXCEPT
                       ![t].result = IF fs[out] = Absent THEN {} ELSE {fs[out]},
                       ![t].status = IF fs[out] = Absent THEN "error"
                                     ELSE IF kind = "latex" \/ task[t].mode = "embedded"
                                     THEN "ok" ELSE "none",
                       ![t].pc = IF kind = "latex" THEN "done"
                                 ELSE IF fs[out] # Absent /\ task[t].mode = "path"
                                 THEN "copy" ELSE "cleanup"]
    /\ UNCHANGED <<surroundings, registryVars, httpVars, sessionVars, fs, served, docs_state>>

\* typst_snippet_to_pdf in path mode: secure_copy_file runs the OS copy command
\* through run_sandboxed (on Windows "copy", then "cp" when that fails).
CopyOutput(t) ==
    /\ task[t].pc = "copy"
    /\ \E first \in CommandEnds, second \in CommandEnds, dest_exists \in BOOLEAN :
           LET copied == secure_copy_file(sandbox, platform, InTemp(UniquePdf(t)), OutPath,
                                          fs[UniquePdf(t)] # Absent, first, second, dest_exists)
           IN  task' = [task EXCEPT
                           ![t].cmds = @ \o copied.cmds,
                           ![t].pc = "cleanup",
                           ![t].status = IF copied.raised = "ok" THEN "ok" ELSE "error"]
    /\ UNCHANGED <<surroundings, registryVars, httpVars, sessionVars, fs, served, docs_state>>

\* typst_snippet_to_image looks for page1.png, page2.png, ... one at a time.
ScanPage(t) ==
    /\ task[t].pc = "scan"
    /\ LET n == Len(task[t].page_files) + 1
       IN  IF n \in Pages /\ fs[PageFile(n)] # Absent
           THEN task' = [task EXCEPT ![t].page_files = Append(@, n)]
           ELSE IF task[t].page_files = <<>>
           THEN task' = Finish(t, "error")
           ELSE task' = [task EXCEPT ![t].pc = "process"]
    /\ UNCHANGED <<surroundings, registryVars, httpVars, sessionVars, fs, served, docs_state>>

\* process_images in a worker thread: every page found is opened and pasted.
ProcessImages(t) ==
    /\ task[t].pc = "process"
    /\ LET found == {fs[PageFile(task[t].page_files[i])] : i \in 1..Len(task[t].page_files)}
       IN  task' = [task EXCEPT
                       ![t].pc = "cleanup",
                       ![t].result = IF Absent \in found THEN {} ELSE found,
                       ![t].status = IF Absent \in found THEN "error" ELSE "ok"]
    /\ UNCHANGED <<surroundings, registryVars, httpVars, sessionVars, fs, served, docs_state>>

\* The pages typst_snippet_to_image's finally block unlinks: it stops at the
\* first unlink that fails, the input file's included.
RECURSIVE UnlinkedPages(_, _)
UnlinkedPages(files, pages) ==
    IF pages = <<>> \/ files[PageFile(Head(pages))] = Absent THEN {}
    ELSE {PageFile(Head(pages))} \cup UnlinkedPages(files, Tail(pages))

\* The finally blocks of typst_snippet_to_image and typst_snippet_to_pdf.
CleanupFiles(t) ==
    /\ task[t].pc = "cleanup"
    /\ LET gone == IF task[t].kind = "image"
                   THEN IF fs[TypFile] = Absent THEN {}
                        ELSE {TypFile} \cup UnlinkedPages(fs, task[t].page_files)
                   ELSE {UniqueTyp(t), UniquePdf(t)}
       IN  fs' = [f \in Files |-> IF f \in gone THEN Absent ELSE fs[f]]
    /\ task' = [task EXCEPT ![t].pc = "done"]
    /\ UNCHANGED <<surroundings, registryVars, httpVars, sessionVars, served, docs_state>>

\* The response has been sent; the slot takes the next request.
Respond(t) ==
    /\ task[t].pc = "done"
    /\ task' = [task EXCEPT ![t] = IdleTask]
    /\ UNCHANGED <<surroundings, registryVars, httpVars, sessionVars, fs, served, docs_state>>

ToolStepOf(t) ==
    \/ Begin(t)
    \/ WriteInput(t)
    \/ RunCommand(t)
    \/ ReadOutput(t)
    \/ CopyOutput(t)
    \/ ScanPage(t)
    \/ ProcessImages(t)
    \/ CleanupFiles(t)
    \/ Respond(t)

ToolStep == \E t \in Tasks : ToolStepOf(t)

\* The tools when the requests come one after the other: a request is taken
\* up only when no other invocation is in progress.
SerialStep ==
    \E t \in Tasks :
        /\ task[t].pc = "idle" => \A u \in Tasks : task[u].pc = "idle"
        /\ ToolStepOf(t) \/ RunCommandKilled(t)

\* ------------------------------------------------------------------------
\* Spec: start-up and the session's operations
\* ------------------------------------------------------------------------
Flags == {"--disable-sandbox", "--strict-sandbox"}

OsResults ==
    [mk : {"ok", "dir_missing", "mkstemp_fails", "write_fails"}, fchflags : BOOLEAN, flock : BOOLEAN,
     setflag : BOOLEAN]

\* The answers of the OS that the platform's branch of _create_settings_file asks for.
OsResultsOf(system) ==
    {r \in OsResults :
        /\ (system # "Darwin" => ~r.fchflags)
        /\ (system # "Linux" => ~r.flock)}

Boot ==
    /\ sandbox = NoneOpt
    /\ strict_mode = FALSE
    /\ artifact = NoFile
    /\ phase = "boot"
    /\ last_call = NoCall

Init ==
    /\ platform \in Platforms
    /\ argv \in {<<"typst-mcp">> \o a : a \in SeqsUpTo(Flags, MaxArgv)}
    /\ env \in {EmptyEnv, [EmptyEnv EXCEPT !["TYPST_MCP_DISABLE_SANDBOX"] = "1"]}
    /\ onPath \in SUBSET {"srt", "npx"}
    /\ probe \in {"exit0", "exit1", "timeout"}
    /\ osres \in OsResultsOf(platform)
    /\ caller \in SessionCommands
    /\ Boot
    /\ ToolsIdle
    /\ RegistryUnused
    /\ HttpIdle

Next == Startup \/ WrapCommand \/ RunSandboxed \/ Cleanup

Spec == Init /\ [][Next]_vars

\* ------------------------------------------------------------------------
\* Registry identifiers and their validation (package_docs.py)
\* ------------------------------------------------------------------------
\* An identifier is a sequence of characters. Two atoms stand for runs of
\* lower-case letters too long to write out ("a*99", "a*101"); a path may also
\* hold whole file names as atoms.
LowerChars == {"a", "c", "e", "t", "z"}
DigitChars == {"0", "1", "2"}
Run99 == "a*99"
Run101 == "a*101"
NL == "\n"
NUL == "\\x00"
BSL == "\\"
FileWords == {"etc", "passwd", "examples", "docs", "typst.toml", "README.md", "a.typ", "b.md"}
LongWord == "w*501"

IsLower(a) == a \in LowerChars \cup {Run99, Run101}
IsDigit(a) == a \in DigitChars

\* How many characters an atom stands for.
CharLen(a) ==
    CASE a = Run99 -> 99
      [] a = Run101 -> 101
      [] a = LongWord -> 501
      [] a = "etc" -> 3
      [] a = "passwd" -> 6
      [] a = "examples" -> 8
      [] a = "docs" -> 4
      [] a = "typst.toml" -> 10
      [] a = "README.md" -> 9
      [] a = "a.typ" -> 5
      [] a = "b.md" -> 4
      [] OTHER -> 1

\* len(s)
RECURSIVE StrLen(_)
StrLen(s) == IF s = <<>> THEN 0 ELSE CharLen(Head(s)) + StrLen(Tail(s))

\* '..' in s
HasDotDot(s) == \E i \in 1..(Len(s) - 1) : s[i] = "." /\ s[i + 1] = "."

\* How many leading atoms of s satisfy C.
RECURSIVE SpanLen(_, _)
SpanLen(C(_), s) == IF s = <<>> \/ ~C(Head(s)) THEN 0 ELSE 1 + SpanLen(C, Tail(s))

Drop(s, n) == SubSeq(s, n + 1, Len(s))

\* A pattern that ends in '$' matches at the end of the string and also just
\* before a line break that ends the string.
AtDollar(rest) == rest = <<>> \/ rest = <<NL>>

IsNameChar(a) == IsLower(a) \/ IsDigit(a) \/ a = "-"
IsNameStart(a) == IsLower(a) \/ IsDigit(a)

\* re.match(r'^[a-z0-9][a-z0-9-]*$', name)
MatchesNamePattern(name) ==
    /\ name # <<>>
    /\ IsNameStart(Head(name))
    /\ AtDollar(Drop(name, 1 + SpanLen(IsNameChar, Tail(name))))

\* validate_package_name: TRUE when it returns the name, FALSE when it raises.
validate_package_name(name) ==
    /\ MatchesNamePattern(name)
    /\ ~(HasDotDot(name) \/ "/" \in Range(name) \/ BSL \in Range(name))
    /\ ~(StrLen(name) > 100)

IsSuffixChar(a) == IsLower(a) \/ IsDigit(a) \/ a = "."

\* [0-9]+\. at the head of s: what follows it, or "no" when s does not start so.
NoMatch == <<"no match">>
AfterNumberDot(s) ==
    LET n == SpanLen(IsDigit, s)
    IN  IF n >= 1 /\ Len(s) > n /\ s[n + 1] = "." THEN Drop(s, n + 1) ELSE NoMatch

\* re.match(r'^[0-9]+\.[0-9]+\.[0-9]+(-[a-z0-9.]+)?$', version)
MatchesVersionPattern(version) ==
    LET minor == AfterNumberDot(version)
        patch == IF minor = NoMatch THEN NoMatch ELSE AfterNumberDot(minor)
    IN  /\ patch # NoMatch
        /\ SpanLen(IsDigit, patch) >= 1
        /\ LET rest == Drop(patch, SpanLen(IsDigit, patch))
           IN  \/ AtDollar(rest)
               \/ /\ rest # <<>> /\ Head(rest) = "-"
                  /\ SpanLen(IsSuffixChar, Tail(rest)) >= 1
                  /\ AtDollar(Drop(Tail(rest), SpanLen(IsSuffixChar, Tail(rest))))

\* validate_version
validate_version(version) ==
    /\ MatchesVersionPattern(version)
    /\ ~(HasDotDot(version) \/ "/" \in Range(version) \/ BSL \in Range(version))

\* path.replace('\\', '/').split('/')
RECURSIVE SplitParts(_, _)
SplitParts(path, cur) ==
    IF path = <<>> THEN <<cur>>
    ELSE IF Head(path) \in {"/", BSL} THEN <<cur>> \o SplitParts(Tail(path), <<>>)
    ELSE SplitParts(Tail(path), Append(cur, Head(path)))

\* validate_file_path
validate_file_path(path) ==
    /\ ~(path # <<>> /\ Head(path) \in {"/", BSL})
    /\ <<".", ".">> \notin Range(SplitParts(path, <<>>))
    /\ NUL \notin Range(path)
    /\ ~(StrLen(path) > 500)

\* ------------------------------------------------------------------------
\* The registry client (package_docs.py)
\* ------------------------------------------------------------------------
\* Code points, for Python's comparison of strings.
CharOrd(a) ==
    CASE a = NL -> 10
      [] a = "-" -> 45
      [] a = "." -> 46
      [] a = "/" -> 47
      [] a = "0" -> 48
      [] a = "1" -> 49
      [] a = "2" -> 50
      [] a = BSL -> 92
      [] OTHER -> 97

\* a < b for Python strings.
RECURSIVE StrLess(_, _)
StrLess(a, b) ==
    IF b = <<>> THEN FALSE
    ELSE IF a = <<>> THEN TRUE
    ELSE IF CharOrd(Head(a)) # CharOrd(Head(b)) THEN CharOrd(Head(a)) < CharOrd(Head(b))
    ELSE StrLess(Tail(a), Tail(b))

\* sorted(versions, reverse=True)[0]
FirstOfSortedReverse(versions) ==
    CHOOSE v \in Range(versions) : \A w \in Range(versions) : ~StrLess(v, w)

\* sorted(versions, reverse=True)
RECURSIVE SortedReverse(_)
SortedReverse(versions) ==
    IF versions = <<>> THEN <<>>
    ELSE LET first == FirstOfSortedReverse(versions)
         IN  <<first>> \o SortedReverse(SeqFilter(LAMBDA v : v # first, versions))

\* The URL of a request, by its parts.
Url(api, name, version, path) ==
    [api |-> api, name |-> name, version |-> version, path |-> path]

\* Steps of a call that are still to run.
Val(kind, value) == [k |-> "val", kind |-> kind, v |-> value]
Req(url, then, grp) == [k |-> "req", url |-> url, then |-> then, grp |-> grp]
Do(what) == [k |-> what]

\* get_package_versions: validate, then one request.
VersionsSteps(name, then) ==
    <<Val("name", name), Req(Url("versions", name, NoneOpt, NoneOpt), then, "none")>>

\* fetch_file_from_github with the file path validated by nothing.
FileStepsPathUnchecked(name, version, path, then, grp) ==
    <<Val("name", name), Val("version", version),
      Req(Url("raw", name, Some(version), Some(path)), then, grp)>>

\* fetch_file_from_github: the three validations, then one request.
FileSteps(name, version, path, then, grp) ==
    <<Val("name", name), Val("version", version), Val("path", path),
      Req(Url("raw", name, Some(version), Some(path)), then, grp)>>

\* fetch_directory_listing: the three validations, then one request.
ListingSteps(name, version, dir_path, then) ==
    <<Val("name", name), Val("version", version), Val("path", dir_path),
      Req(Url("contents", name, Some(version), Some(dir_path)), then, "none")>>

\* The candidate file names build_package_docs tries, first found wins.
ReadmeNames == <<"README.md", "readme.md", "Readme.md">>
LicenseNames == <<"LICENSE", "LICENSE.md", "LICENSE.txt">>
ChangelogNames == <<"CHANGELOG.md", "CHANGELOG", "changelog.md", "HISTORY.md">>

RECURSIVE TryEach(_, _, _, _)
TryEach(name, version, files, grp) ==
    IF files = <<>> THEN <<>>
    ELSE FileSteps(name, version, <<Head(files)>>, "next", grp)
             \o TryEach(name, version, Tail(files), grp)

\* build_package_docs from the metadata fetch to the 70% check.
BuildFetches(name, version) ==
    FileSteps(name, version, <<"typst.toml">>, "next", "none")
        \o TryEach(name, version, ReadmeNames, "readme")
        \o TryEach(name, version, LicenseNames, "license")
        \o TryEach(name, version, ChangelogNames, "changelog")
        \o <<Do("budget")>>

\* entry["name"].endswith(...) for the entry names a listing can hold.
EndsWith(entry, exts) ==
    entry # <<>> /\
    \/ (".typ" \in exts /\ entry[Len(entry)] = "a.typ")
    \/ (".md" \in exts /\ entry[Len(entry)] = "b.md")

\* fetch_examples_directory / fetch_docs_directory: the fetches a listing leads to.
RECURSIVE EntrySteps(_, _, _, _, _)
EntrySteps(name, version, dir, entries, exts) ==
    IF entries = <<>> THEN <<>>
    ELSE (IF EndsWith(Head(entries), exts)
          THEN FileSteps(name, version, <<dir, "/">> \o Head(entries), "next", "none")
          ELSE <<>>)
             \o EntrySteps(name, version, dir, Tail(entries), exts)

DirExts(dir) == IF dir = "examples" THEN {".typ"} ELSE {".md", ".txt", ".typ"}

RegistryOps ==
    {"get_package_versions", "fetch_file_from_github", "fetch_directory_listing",
     "get_package_metadata", "fetch_examples_directory", "fetch_docs_directory",
     "build_package_docs", "search_packages", "list_all_packages"}

\* search_packages / list_all_packages: one request for the package index.
IndexSteps == <<Req(Url("index", <<>>, NoneOpt, NoneOpt), "return", "none")>>

\* The steps a call starts with.
FirstSteps(op, name, version, path) ==
    CASE op = "get_package_versions" -> VersionsSteps(name, "return")
      [] op = "fetch_file_from_github" -> FileSteps(name, Get(version), path, "return", "none")
      [] op = "fetch_directory_listing" -> ListingSteps(name, Get(version), path, "return")
      [] op = "get_package_metadata" ->
             FileSteps(name, Get(version), <<"typst.toml">>, "return", "none")
      [] op = "fetch_examples_directory" ->
             ListingSteps(name, Get(version), <<"examples">>, "examples")
      [] op = "fetch_docs_directory" -> ListingSteps(name, Get(version), <<"docs">>, "docs")
      [] op \in {"search_packages", "list_all_packages"} -> IndexSteps
      [] OTHER ->
             <<Val("name", name)>>
                 \o (IF HasVersion(version) THEN <<Val("version", Get(version))>> ELSE <<>>)
                 \o <<Do("memory")>>

\* What fetch_with_size_limit gives for a request: "ok" (status 200), "404",
\* or what it raises: "timeout" (httpx.TimeoutException), "transport" (another
\* httpx.HTTPError), "rejected" (ValueError of the URL filter), "too_large"
\* (ValueError of the size check).
Answer(rem, url) ==
    CASE rem.fault = "timeout" -> "timeout"
      [] rem.fault = "transport" -> "transport"
      [] rem.fault = "unsafe" -> "rejected"
      [] rem.fault = "too_large" -> "too_large"
      [] url.api = "index" -> "ok"
      [] url.api = "versions" -> IF rem.versions = <<>> THEN "404" ELSE "ok"
      [] url.api = "raw" -> IF Get(url.path) \in rem.files THEN "ok" ELSE "404"
      [] OTHER ->
             IF \/ (Get(url.path) = <<"examples">> /\ rem.examples # <<>>)
                \/ (Get(url.path) = <<"docs">> /\ rem.docs # <<>>)
             THEN "ok" ELSE "404"

\* The except clause of get_package_versions that handles an answer; the
\* RuntimeError raised for a 404 is raised inside the try block.
VersionsClause(ans) ==
    CASE ans = "timeout" -> "timeout"
      [] ans = "transport" -> "http"
      [] OTHER -> "generic"

\* A call whose steps have run out has returned.
Advance(r) ==
    IF r.pc = "run" /\ r.todo = <<>> THEN [r EXCEPT !.pc = "done", !.outcome = "ok"] ELSE r

Fail(r, outcome) == [r EXCEPT !.pc = "done", !.outcome = outcome, !.todo = <<>>]

FailBy(r, outcome, clause) == [Fail(r, outcome) EXCEPT !.clause = clause]

\* The document build_package_docs has put together.
Document(r) == [version |-> Get(r.version), full |-> r.full, found |-> r.found]

\* The timeouts build_package_docs is called with, and the cap on the clock.
BuildTimeouts == {1, 10}
MaxElapsed == 12
Later(elapsed, delay) == IF elapsed + delay > MaxElapsed THEN MaxElapsed ELSE elapsed + delay

NameInputs == {<<"c", "e", "t", "z">>, <<"c", "e", "t", "z", NL>>, <<".", ".", "/", "c">>, <<>>}
VersionInputs ==
    {NoneOpt, Some(<<>>), Some(<<"1", ".", "0", ".", "0">>), Some(<<"1", ".", "0">>),
     Some(<<".", ".", "/", "1">>)}
PathInputs ==
    {<<"README.md">>, <<"examples">>, <<"/", "etc">>,
     <<".", ".", "/", ".", ".", "/", "etc", "/", "passwd">>}

\* A registry function is called.
RegCall ==
    /\ phase = "serving"
    /\ reg.pc = "idle"
    /\ calls < MaxCalls
    /\ calls' = calls + 1
    /\ \E op \in RegistryOps, name \in NameInputs, version \in VersionInputs,
          path \in PathInputs, timeout \in BuildTimeouts :
           /\ (op \in {"fetch_file_from_github", "fetch_directory_listing"} \/ path = <<"README.md">>)
           /\ (op \in {"search_packages", "list_all_packages"} => name = <<>>)
           /\ (op \in {"get_package_versions", "search_packages", "list_all_packages"}
                   => version = NoneOpt)
           /\ (op \notin {"get_package_versions", "build_package_docs", "search_packages",
                           "list_all_packages"} => IsSome(version))
           /\ (op # "build_package_docs" => timeout = 10)
           /\ reg' = [IdleCall EXCEPT !.op = op, !.pc = "run", !.name = name,
                                      !.given = version, !.version = version,
                                      !.path = path, !.timeout = timeout,
                                      !.key = CacheKey(name, version),
                                      !.todo = FirstSteps(op, name, version, path)]
    /\ UNCHANGED <<surroundings, sessionVars, toolVars, httpVars, workers, remote, pkg_mem, pkg_disk>>

Validates(kind, value) ==
    CASE kind = "name" -> validate_package_name(value)
      [] kind = "version" -> validate_version(value)
      [] OTHER -> validate_file_path(value)

\* One of the validate_* calls: it returns, or raises ValueError to the caller.
RegValidate ==
    /\ reg.pc = "run"
    /\ Head(reg.todo).k = "val"
    /\ LET item == Head(reg.todo)
       IN  reg' = IF Validates(item.kind, item.v)
                  THEN Advance([reg EXCEPT !.validated = @ \cup {<<item.kind, item.v>>},
                                           !.todo = Tail(@)])
                  ELSE Fail(reg, "ValueError")
    /\ UNCHANGED <<surroundings, sessionVars, toolVars, httpVars, workers, remote, pkg_mem, pkg_disk, calls>>

\* The steps of the same first-found-wins loop that follow in todo.
RECURSIVE SkipGroup(_, _)
SkipGroup(todo, grp) ==
    IF Len(todo) >= 4 /\ todo[4].k = "req" /\ todo[4].grp = grp
    THEN SkipGroup(SubSeq(todo, 5, Len(todo)), grp)
    ELSE todo

\* What a function that makes one request returns or raises for an answer.
Returned(r, url, ans) ==
    CASE url.api = "versions" ->
             IF ans = "ok"
             THEN [Fail(r, "ok") EXCEPT !.result = Some(SortedReverse(remote.versions))]
             ELSE FailBy(r, "RuntimeError", VersionsClause(ans))
      [] url.api = "index" ->
             IF ans = "ok" THEN [Fail(r, "ok") EXCEPT !.result = Some(<<r.name>>)]
             ELSE FailBy(r, "empty", "generic")
      [] OTHER ->
             IF ans = "ok"
             THEN [Fail(r, "ok") EXCEPT
                      !.result = Some(IF url.api = "raw" THEN <<Get(url.path)>>
                                      ELSE remote[Get(url.path)[1]])]
             ELSE FailBy(r, "None",
                         IF ans = "404" THEN "none"
                         ELSE IF ans = "timeout" /\ url.api = "raw" THEN "timeout"
                         ELSE "generic")

\* fetch_with_size_limit(client, url) and what the caller does with the answer.
RegRequest ==
    /\ reg.pc = "run"
    /\ Head(reg.todo).k = "req"
    /\ LET item == Head(reg.todo)
           rest == Tail(reg.todo)
           ans  == Answer(remote, item.url)
           r    == [reg EXCEPT !.sent = @ \cup {[url |-> item.url, checked |-> reg.validated,
                                                  ans |-> ans]},
                               !.elapsed = Later(@, remote.delay)]
           dir  == IF item.then = "examples" THEN "examples" ELSE "docs"
       IN  reg' =
               CASE item.then = "return" -> Returned(r, item.url, ans)
                 [] item.then = "resolve" ->
                        IF ans = "ok"
                        THEN [r EXCEPT !.version = Some(Head(SortedReverse(remote.versions))),
                                       !.todo = rest]
                        ELSE FailBy(r, "RuntimeError", VersionsClause(ans))
                 [] item.then = "next" ->
                        Advance([r EXCEPT !.found = IF ans = "ok"
                                                    THEN @ \cup {Get(item.url.path)} ELSE @,
                                          !.todo = IF ans = "ok" /\ item.grp # "none"
                                                   THEN SkipGroup(rest, item.grp) ELSE rest])
                 [] OTHER ->
                        Advance([r EXCEPT !.todo =
                                     (IF ans = "ok"
                                      THEN EntrySteps(reg.name, Get(reg.version), dir,
                                                      remote[dir], DirExts(dir))
                                      ELSE <<>>) \o rest])
    /\ UNCHANGED <<surroundings, sessionVars, toolVars, httpVars, workers, remote, pkg_mem, pkg_disk, calls>>

\* A memory map that is never found to hold a key.
MemoryMiss(key, mem) == {}

\* _package_cache[cache_key], when cache_key in _package_cache.
MemoryHit(key, mem) == {e \in mem : e.key = key}

\* build_package_docs: "if cache_key in _package_cache: return ...".
RegMemoryCheck ==
    /\ reg.pc = "run"
    /\ Head(reg.todo).k = "memory"
    /\ LET r == [reg EXCEPT !.trace = Append(@, "memory")]
           hits == MemoryHit(reg.key, pkg_mem)
       IN  reg' = IF hits # {}
                  THEN [Fail(r, "cached") EXCEPT !.result = Some((CHOOSE e \in hits : TRUE).doc)]
                  ELSE [r EXCEPT !.todo = (IF HasVersion(reg.version) THEN <<>>
                                           ELSE VersionsSteps(reg.name, "resolve"))
                                              \o <<Do("disk")>>]
    /\ UNCHANGED <<surroundings, sessionVars, toolVars, httpVars, workers, remote, pkg_mem, pkg_disk, calls>>

\* build_package_docs: "if package_cache_file.exists()": load it into memory.
RegDiskCheck ==
    /\ reg.pc = "run"
    /\ Head(reg.todo).k = "disk"
    /\ LET r == [reg EXCEPT !.trace = Append(@, "disk")]
           hits == {f \in pkg_disk : f.name = reg.name /\ f.version = Get(reg.version)}
           docs == (CHOOSE f \in hits : TRUE).doc
       IN  IF hits # {}
           THEN /\ reg' = [Fail(r, "cached") EXCEPT !.result = Some(docs)]
                /\ pkg_mem' = {e \in pkg_mem : e.key # reg.key}
                                  \cup {[key |-> reg.key, doc |-> docs]}
           ELSE /\ reg' = [r EXCEPT !.todo = BuildFetches(reg.name, Get(reg.version))]
                /\ pkg_mem' = pkg_mem
    /\ UNCHANGED <<surroundings, sessionVars, toolVars, httpVars, workers, remote, pkg_disk, calls>>

\* elapsed > timeout * 0.7
OverBudget(elapsed, timeout) == elapsed * 10 > timeout * 7

\* A final check that lets twice the timeout pass.
TimedOutAtDouble(elapsed, timeout) == elapsed > 2 * timeout

\* elapsed > timeout
TimedOut(elapsed, timeout) == elapsed > timeout

\* build_package_docs: "if elapsed > timeout * 0.7" skips examples/ and docs/.
RegBudget ==
    /\ reg.pc = "run"
    /\ Head(reg.todo).k = "budget"
    /\ LET over == OverBudget(reg.elapsed, reg.timeout)
       IN  reg' = [reg EXCEPT
                      !.trace = Append(@, "budget"),
                      !.full = ~over,
                      !.todo = (IF over THEN <<>>
                                ELSE ListingSteps(reg.name, Get(reg.version), <<"examples">>,
                                                  "examples")
                                         \o ListingSteps(reg.name, Get(reg.version), <<"docs">>,
                                                         "docs"))
                                   \o <<Do("deadline")>>]
    /\ UNCHANGED <<surroundings, sessionVars, toolVars, httpVars, workers, remote, pkg_mem, pkg_disk, calls>>

\* build_package_docs: "if elapsed > timeout: raise RuntimeError".
RegDeadline ==
    /\ reg.pc = "run"
    /\ Head(reg.todo).k = "deadline"
    /\ LET r == [reg EXCEPT !.trace = Append(@, "deadline")]
       IN  reg' = IF TimedOut(reg.elapsed, reg.timeout) THEN Fail(r, "Timeout")
                  ELSE [r EXCEPT !.todo = <<Do("store_file"), Do("store_memory")>>]
    /\ UNCHANGED <<surroundings, sessionVars, toolVars, httpVars, workers, remote, pkg_mem, pkg_disk, calls>>

\* build_package_docs: json.dump(docs, f) into the cache file.
RegStoreFile ==
    /\ reg.pc = "run"
    /\ Head(reg.todo).k = "store_file"
    /\ pkg_disk' = {f \in pkg_disk : ~(f.name = reg.name /\ f.version = Get(reg.version))}
                       \cup {[name |-> reg.name, version |-> Get(reg.version),
                              doc |-> Document(reg)]}
    /\ reg' = [reg EXCEPT !.todo = Tail(@), !.trace = Append(@, "store_file")]
    /\ UNCHANGED <<surroundings, sessionVars, toolVars, httpVars, workers, remote, pkg_mem, calls>>

\* build_package_docs: _package_cache[cache_key] = docs, and return docs.
RegStoreMemory ==
    /\ reg.pc = "run"
    /\ Head(reg.todo).k = "store_memory"
    /\ pkg_mem' = {e \in pkg_mem : e.key # reg.key}
                      \cup {[key |-> reg.key, doc |-> Document(reg)]}
    /\ reg' = [Fail(reg, "ok") EXCEPT !.trace = Append(@, "store_memory"),
                                      !.result = Some(Document(reg))]
    /\ UNCHANGED <<surroundings, sessionVars, toolVars, httpVars, workers, remote, pkg_disk, calls>>

\* The caller has the result (or the exception).
RegReturn ==
    /\ reg.pc = "done"
    /\ reg' = IdleCall
    /\ UNCHANGED <<surroundings, sessionVars, toolVars, httpVars, workers, remote, pkg_mem, pkg_disk, calls>>

\* ------------------------------------------------------------------------
\* SpecTools: the server starts, then serves tool requests concurrently
\* ------------------------------------------------------------------------
\* The installations the tools are exercised on.
ToolBoots ==
    { [system |-> "Linux",   args |-> <<>>,                     which |-> {"srt"}],
      [system |-> "Linux",   args |-> <<"--strict-sandbox">>,   which |-> {"npx"}],
      [system |-> "Windows", args |-> <<"--strict-sandbox">>,   which |-> {"srt", "npx"}],
      [system |-> "Darwin",  args |-> <<"--disable-sandbox">>,  which |-> {"srt"}] }

InitTools ==
    /\ \E b \in ToolBoots :
           /\ platform = b.system
           /\ argv = <<"typst-mcp">> \o b.args
           /\ onPath = b.which
    /\ env = EmptyEnv
    /\ probe = "exit0"
    /\ osres = [mk |-> "ok", fchflags |-> FALSE, flock |-> (platform = "Linux"), setflag |-> TRUE]
    /\ caller = TypstCompile
    /\ Boot
    /\ ToolsIdle
    /\ RegistryUnused
    /\ HttpIdle

NextTools == Startup \/ ToolStep

SpecTools == InitTools /\ [][NextTools]_vars

\* SpecSerial: the same tools serving one request at a time.
InitSerial == InitTools

NextSerial == Startup \/ SerialStep

SpecSerial == InitSerial /\ [][NextSerial]_vars

\* ------------------------------------------------------------------------
\* SpecPolicy: the policy built at start-up, over command lines and environments
\* ------------------------------------------------------------------------
PolicyArgvs ==
    {<<"typst-mcp">>,
     <<"typst-mcp", "--read-allow-only", "/data,~/docs">>,
     <<"typst-mcp", "--read-allow-only", "/data, ~/.ssh">>,
     <<"typst-mcp", "--read-allow-only", " , ">>,
     <<"typst-mcp", "--strict-sandbox", "--read-allow-only">>}

PolicyEnvs ==
    {[n \in EnvNames |->
         CASE n = "TYPST_MCP_DENY_READ" -> d
           [] n = "TYPST_MCP_ALLOW_WRITE" -> w
           [] n = "TYPST_MCP_ALLOW_DOMAINS" -> dom
           [] n = "XDG_CACHE_HOME" -> x
           [] n = "LOCALAPPDATA" -> l
           [] OTHER -> Unset] :
        d \in {Unset, "", "/secret, ~/private,,"},
        w \in {Unset, "/etc"},
        dom \in {Unset, "evil.example"},
        x \in {Unset, "/mnt/x"},
        l \in {Unset, "C:\\Users\\user\\AppData\\Local"}}

InitPolicy ==
    /\ platform \in Platforms
    /\ argv \in PolicyArgvs
    /\ env \in PolicyEnvs
    /\ onPath = {"srt"}
    /\ probe = "exit0"
    /\ osres = [mk |-> "ok", fchflags |-> FALSE, flock |-> (platform = "Linux"), setflag |-> TRUE]
    /\ caller = TypstCompile
    /\ Boot
    /\ ToolsIdle
    /\ RegistryUnused
    /\ HttpIdle

NextPolicy == Startup

SpecPolicy == InitPolicy /\ [][NextPolicy]_vars

\* ------------------------------------------------------------------------
\* SpecWrap: wrap_command on every kind of session, for lists and texts
\* ------------------------------------------------------------------------
TextAtoms == {"typst", "x", SP, SQ, DQ}
ArgStrings == {"typst", "compile", "a b"}

WrapCommands ==
    {ListCmd(a) : a \in SeqsUpTo(ArgStrings, MaxArgs)}
        \cup {StrCmd(t) : t \in SeqsUpTo(TextAtoms, MaxText)}

InitWrap ==
    /\ platform \in {"Linux", "Windows"}
    /\ argv \in {<<"typst-mcp">>, <<"typst-mcp", "--disable-sandbox">>}
    /\ env = EmptyEnv
    /\ onPath \in SUBSET {"srt", "npx"}
    /\ probe \in {"exit0", "exit1"}
    /\ \E mk \in {"ok", "dir_missing"} :
           osres = [mk |-> mk, fchflags |-> FALSE, flock |-> (platform = "Linux"),
                    setflag |-> TRUE]
    /\ caller \in WrapCommands
    /\ Boot
    /\ ToolsIdle
    /\ RegistryUnused
    /\ HttpIdle

NextWrap == Startup \/ WrapCommand

SpecWrap == InitWrap /\ [][NextWrap]_vars

\* ------------------------------------------------------------------------
\* SpecRegistry: registry calls against a repository, with the caches
\* ------------------------------------------------------------------------
Remotes ==
    { [up |-> TRUE, fault |-> "none", delay |-> d,
       versions |-> <<<<"0", ".", "2", ".", "0">>, <<"0", ".", "1", "0", ".", "0">>>>,
       files |-> {<<"typst.toml">>, <<"README.md">>, <<"LICENSE.md">>,
                  <<"examples", "/", "a.typ">>},
       examples |-> <<<<"a.typ">>, <<"b.md">>>>,
       docs |-> <<<<"b.md">>>>] : d \in {0, 1, 2} }
    \cup
    { [up |-> TRUE, fault |-> "none", delay |-> 0,
       versions |-> <<<<"1", ".", "0", ".", "0">>, <<".", ".", "/", "1">>>>,
       files |-> {<<"typst.toml">>},
       examples |-> <<<<".", ".", "/", "a.typ">>>>,
       docs |-> <<>>] }
    \cup
    { [up |-> FALSE, fault |-> f, delay |-> 2,
       versions |-> <<<<"1", ".", "0", ".", "0">>>>, files |-> {<<"typst.toml">>},
       examples |-> <<>>, docs |-> <<>>] :
           f \in {"timeout", "transport", "unsafe", "too_large"} }
    \cup
    { [up |-> TRUE, fault |-> "none", delay |-> 0, versions |-> <<>>, files |-> {},
       examples |-> <<>>, docs |-> <<>>],
      NoRemote }

InitRegistry ==
    /\ platform = "Linux"
    /\ argv = <<"typst-mcp">>
    /\ env = EmptyEnv
    /\ onPath = {"srt"}
    /\ probe = "exit0"
    /\ osres = [mk |-> "ok", fchflags |-> FALSE, flock |-> TRUE, setflag |-> TRUE]
    /\ caller = TypstCompile
    /\ Boot
    /\ ToolsIdle
    /\ RegistryIdle
    /\ HttpIdle
    /\ remote \in Remotes

NextRegistry ==
    \/ Startup
    \/ RegCall
    \/ RegValidate
    \/ RegRequest
    \/ RegMemoryCheck
    \/ RegDiskCheck
    \/ RegBudget
    \/ RegDeadline
    \/ RegStoreFile
    \/ RegStoreMemory
    \/ RegReturn

SpecRegistry == InitRegistry /\ [][NextRegistry]_vars

\* ------------------------------------------------------------------------
\* The HTTP client (package_docs.py, create_safe_client)
\* A URL or a Location header is a text of tokens: a scheme with its colon,
\* "//", "/", ".", host labels and a path word.
\* ------------------------------------------------------------------------
MaxFetches == 2
max_redirects == 5

SchemeTokens == {"https:", "http:"}
SlashTokens == {"/", "//"}
PathX == <<"/", "x">>

Dotted(labels) ==
    IF Len(labels) = 1 THEN labels
    ELSE [i \in 1..(2 * Len(labels) - 1) |-> IF i % 2 = 1 THEN labels[(i + 1) \div 2] ELSE "."]

ALLOWED_REDIRECT_HOSTS ==
    {Dotted(<<"github", "com">>), Dotted(<<"raw", "githubusercontent", "com">>),
     Dotted(<<"api", "github", "com">>), Dotted(<<"packages", "typst", "org">>),
     Dotted(<<"typst", "app">>), Dotted(<<"objects", "githubusercontent", "com">>)}

blocked_hostnames ==
    {<<"localhost">>, Dotted(<<"localhost", "localdomain">>), Dotted(<<"127", "0", "0", "1">>),
     Dotted(<<"0", "0", "0", "0">>), Dotted(<<"metadata", "google", "internal">>),
     Dotted(<<"metadata", "google", "com">>), <<"metadata">>, <<"::1">>}

\* The text before the first "/" or "//" of a token text.
RECURSIVE UpToSlash(_)
UpToSlash(text) ==
    IF text = <<>> \/ Head(text) \in SlashTokens THEN <<>>
    ELSE <<Head(text)>> \o UpToSlash(Tail(text))

\* urlparse(url).scheme and urlparse(url).hostname
SchemeOf(text) == IF text # <<>> /\ Head(text) \in SchemeTokens THEN Some(Head(text)) ELSE NoneOpt
AfterScheme(text) == IF IsSome(SchemeOf(text)) THEN Tail(text) ELSE text
UserInfo == "user@"
PortSuffix == ":80"

\* str.lower() of the tokens this model writes with capitals.
Lower(a) ==
    CASE a = "LOCALHOST" -> "localhost"
      [] a = "Metadata" -> "metadata"
      [] a = "Google" -> "google"
      [] a = "Internal" -> "internal"
      [] a = "GitHub" -> "github"
      [] a = "Typst" -> "typst"
      [] a = "App" -> "app"
      [] OTHER -> a

\* The netloc without its userinfo, its port and the brackets of an IPv6
\* address, lower-cased.
HostOfNetloc(netloc) ==
    LET a == IF netloc # <<>> /\ Head(netloc) = UserInfo THEN Tail(netloc) ELSE netloc
        b == IF a # <<>> /\ a[Len(a)] = PortSuffix THEN SubSeq(a, 1, Len(a) - 1) ELSE a
        c == IF Len(b) >= 2 /\ Head(b) = "[" /\ b[Len(b)] = "]"
             THEN SubSeq(b, 2, Len(b) - 1) ELSE b
    IN  SeqMap(Lower, c)

Hostname(text) ==
    LET rest == AfterScheme(text)
        host == IF rest # <<>> /\ Head(rest) = "//"
                THEN HostOfNetloc(UpToSlash(Tail(rest))) ELSE <<>>
    IN  IF host = <<>> THEN NoneOpt ELSE Some(host)

\* int() of the octets the hosts of this model use.
OctetOf ==
    [o \in {"0", "1", "2", "8", "10", "16", "18", "32", "64", "100", "127", "168", "169",
            "172", "192", "198", "224", "240", "254"} |->
        CASE o = "0" -> 0 [] o = "1" -> 1 [] o = "2" -> 2 [] o = "8" -> 8 [] o = "10" -> 10
          [] o = "16" -> 16 [] o = "18" -> 18 [] o = "32" -> 32 [] o = "64" -> 64
          [] o = "100" -> 100 [] o = "127" -> 127 [] o = "168" -> 168 [] o = "169" -> 169
          [] o = "172" -> 172 [] o = "192" -> 192 [] o = "198" -> 198 [] o = "224" -> 224
          [] o = "240" -> 240 [] OTHER -> 254]

\* ipaddress.ip_address(hostname) succeeds: four octets.
IsIPv4(host) ==
    /\ Len(host) = 7
    /\ \A i \in 1..7 : IF i % 2 = 1 THEN host[i] \in DOMAIN OctetOf ELSE host[i] = "."

\* The address test without the link-local range.
BlockedAddressNoLinkLocal(host) ==
    LET a == OctetOf[host[1]]
        b == OctetOf[host[3]]
    IN  \/ a \in {0, 10, 127}
        \/ a = 172 /\ b \in 16..31
        \/ a = 192 /\ b = 168
        \/ a >= 224

\* is_private, is_loopback, is_link_local, is_reserved or is_multicast of an
\* IPv4 address.
BlockedAddress(host) ==
    LET a == OctetOf[host[1]]
        b == OctetOf[host[3]]
        c == OctetOf[host[5]]
        d == OctetOf[host[7]]
    IN  \/ a \in {0, 10, 127}
        \/ a = 169 /\ b = 254
        \/ a = 172 /\ b \in 16..31
        \/ a = 192 /\ b = 168
        \/ a = 192 /\ b = 0 /\ c = 0 /\ d \in 0..7
        \/ a = 192 /\ b = 0 /\ c = 2
        \/ a = 198 /\ b \in 18..19
        \/ a >= 224

\* The IPv6 addresses of this model with what ipaddress says of them.
BlockedAddresses6 == {<<"::1">>, <<"fe80::1">>, <<"ff02::1">>}
IsIPv6(host) == host \in BlockedAddresses6 \cup {<<"2606:4700::1">>}

is_safe_url(url) ==
    LET hostname == Hostname(url)
    IN  /\ IsSome(hostname)
        /\ SeqMap(Lower, Get(hostname)) \notin blocked_hostnames
        /\ IsIPv4(Get(hostname)) => ~BlockedAddress(Get(hostname))
        /\ IsIPv6(Get(hostname)) => Get(hostname) \notin BlockedAddresses6

\* hostname.endswith(f".{allowed}")
\* A host that begins with an allow-listed host and a dot.
HasAllowedPrefix(host, allowed) ==
    /\ Len(host) >= Len(allowed) + 1
    /\ SubSeq(host, 1, Len(allowed) + 1) = allowed \o <<".">>

\* hostname_lower.endswith(f".{allowed}")
IsSubdomainOf(host, allowed) ==
    /\ Len(host) >= Len(allowed) + 1
    /\ SubSeq(host, Len(host) - Len(allowed), Len(host)) = <<".">> \o allowed

AllowedHost(host) ==
    \/ host \in ALLOWED_REDIRECT_HOSTS
    \/ \E allowed \in ALLOWED_REDIRECT_HOSTS : IsSubdomainOf(host, allowed)

is_safe_redirect(url) ==
    /\ is_safe_url(url)
    /\ IsSome(Hostname(url))
    /\ AllowedHost(SeqMap(Lower, Get(Hostname(url))))

UrlOf(scheme, host) == <<scheme, "//">> \o host \o PathX

\* validate_redirect, the response hook: TRUE when it returns, FALSE when it
\* raises ValueError.
validate_redirect(request_url, resp) ==
    IF resp.status = 302 /\ IsSome(resp.location) /\ Get(resp.location) # <<>>
    THEN LET location == Get(resp.location)
             redirect_url ==
                 IF Head(location) \in SlashTokens
                 THEN <<Get(SchemeOf(request_url)), "//">> \o Get(Hostname(request_url))
                          \o location
                 ELSE location
         IN  is_safe_redirect(redirect_url)
    ELSE TRUE

\* The URL httpx requests next for a redirect response (follow_redirects=True):
\* the Location header resolved against the URL of the request, RFC 3986.
RedirectTarget(request_url, location) ==
    LET scheme == SchemeOf(location)
        host   == Hostname(location)
        here   == Get(Hostname(request_url))
        same   == Get(SchemeOf(request_url))
    IN  CASE IsSome(scheme) /\ IsSome(host) -> UrlOf(Get(scheme), Get(host))
          [] IsSome(scheme) -> UrlOf(Get(scheme), here)
          [] IsSome(host) -> UrlOf(same, Get(host))
          [] OTHER -> UrlOf(same, here)

\* The hosts the registry functions address.
RegistryUrls ==
    {UrlOf("https:", Dotted(<<"api", "github", "com">>)),
     UrlOf("https:", Dotted(<<"raw", "githubusercontent", "com">>)),
     UrlOf("https:", Dotted(<<"packages", "typst", "org">>))}

\* The hosts a server can name in a Location header.
OtherHosts ==
    {Dotted(<<"github", "com">>), Dotted(<<"codeload", "github", "com">>),
     Dotted(<<"evil", "example">>), Dotted(<<"evilgithub", "com">>), <<"localhost">>,
     Dotted(<<"169", "254", "169", "254">>), Dotted(<<"10", "0", "0", "1">>),
     Dotted(<<"8", "8", "8", "8">>)}

\* Location headers: absolute, protocol-relative, host-relative, relative,
\* a scheme without a host, and the empty header.
Locations ==
    {UrlOf(s, h) : s \in SchemeTokens, h \in OtherHosts}
        \cup {<<"//">> \o h \o PathX : h \in OtherHosts}
        \cup {PathX, <<"x">>, <<"https:", "/", "x">>, <<>>}

Responses ==
    {[status |-> st, location |-> NoneOpt] : st \in {200, 302, 404}}
        \cup {[status |-> 302, location |-> Some(l)] : l \in Locations}

\* client.head(url) / client.get(url) in fetch_with_size_limit.
HttpRequest ==
    /\ phase = "serving"
    /\ http.pc = "idle"
    /\ fetches < MaxFetches
    /\ fetches' = fetches + 1
    /\ \E url \in RegistryUrls : http' = [IdleRequest EXCEPT !.pc = "send", !.url = url]
    /\ wire' = NoneOpt
    /\ UNCHANGED <<surroundings, sessionVars, toolVars, registryVars, fetch, verdict>>

\* SSRFSafeTransport.handle_request, reached once per request the client sends;
\* the client gives up first when the history is longer than max_redirects.
HttpHandleRequest ==
    /\ http.pc = "send"
    /\ IF http.hops > max_redirects
       THEN /\ http' = [http EXCEPT !.pc = "done", !.outcome = "TooManyRedirects"]
            /\ wire' = wire
       ELSE IF ~is_safe_url(http.url)
       THEN /\ http' = [http EXCEPT !.pc = "done", !.outcome = "ValueError"]
            /\ wire' = wire
       ELSE /\ wire' = Some([url |-> http.url, redirected |-> http.hops > 0])
            /\ \E resp \in Responses : http' = [http EXCEPT !.pc = "hook", !.resp = Some(resp)]
    /\ UNCHANGED <<surroundings, sessionVars, toolVars, registryVars, fetches, fetch, verdict>>

\* The response hook runs, then the client follows a redirect or returns.
HttpResponse ==
    /\ http.pc = "hook"
    /\ LET resp == Get(http.resp)
       IN  http' =
               IF ~validate_redirect(http.url, resp)
               THEN [http EXCEPT !.pc = "done", !.outcome = "ValueError"]
               ELSE IF resp.status = 302 /\ IsSome(resp.location)
               THEN [http EXCEPT !.pc = "send", !.hops = @ + 1, !.resp = NoneOpt,
                                 !.url = RedirectTarget(http.url, Get(resp.location))]
               ELSE [http EXCEPT !.pc = "done",
                                 !.outcome = IF resp.status = 200 THEN "ok" ELSE "status"]
    /\ UNCHANGED <<surroundings, sessionVars, toolVars, registryVars, wire, fetches, fetch, verdict>>

\* The caller has the response (or the exception).
HttpReturn ==
    /\ http.pc = "done"
    /\ http' = IdleRequest
    /\ UNCHANGED <<surroundings, sessionVars, toolVars, registryVars, wire, fetches, fetch, verdict>>

\* ------------------------------------------------------------------------
\* SpecHttp: requests through the client, with a server that answers freely
\* ------------------------------------------------------------------------
InitHttp ==
    /\ platform = "Linux"
    /\ argv = <<"typst-mcp">>
    /\ env = EmptyEnv
    /\ onPath = {"srt"}
    /\ probe = "exit0"
    /\ osres = [mk |-> "ok", fchflags |-> FALSE, flock |-> TRUE, setflag |-> TRUE]
    /\ caller = TypstCompile
    /\ Boot
    /\ ToolsIdle
    /\ RegistryUnused
    /\ HttpIdle

NextHttp ==
    \/ Startup
    \/ HttpRequest
    \/ HttpHandleRequest
    \/ HttpResponse
    \/ HttpReturn

SpecHttp == InitHttp /\ [][NextHttp]_vars

\* ------------------------------------------------------------------------
\* fetch_with_size_limit (package_docs.py): a HEAD request, then the GET
\* Sizes are counted in units; Content-Length is absent (NoneOpt) or a number.
\* ------------------------------------------------------------------------
MaxSize == 3
SizeLimits == {1, 2}

Declarations == {NoneOpt} \cup {Some(n) : n \in 0..MaxSize}

\* What client.head(url) gives: an httpx error, a ValueError of the URL
\* filter, or a response with its Content-Length.
HeadResults ==
    {[raised |-> e, declared |-> NoneOpt] : e \in {"HTTPError", "ValueError"}}
        \cup {[raised |-> "none", declared |-> d] : d \in Declarations}

\* What client.get(url) gives: an exception, or a response with its status,
\* its Content-Length and the body received.
GetResults ==
    {[raised |-> e, status |-> 0, declared |-> NoneOpt, size |-> 0] :
         e \in {"TimeoutException", "ValueError"}}
        \cup {[raised |-> "none", status |-> st, declared |-> d, size |-> n] :
                  st \in {200, 404}, d \in Declarations, n \in 0..MaxSize}

\* The HEAD part: whatever it raises, HTTPError or ValueError, is passed over.
HeadCheck(head, max_size) ==
    IF head.raised # "none" THEN "pass"
    ELSE IF IsSome(head.declared) /\ Get(head.declared) > max_size THEN "pass"
    ELSE "continue"

\* The size check without the look at the declared Content-Length.
SizeCheckBodyOnly(got, max_size) == got.size > max_size

\* The two checks on the GET response.
SizeCheck(got, max_size) ==
    \/ IsSome(got.declared) /\ Get(got.declared) > max_size
    \/ got.size > max_size

\* fetch_with_size_limit(client, url, max_size): the response, or the exception.
fetch_with_size_limit(head, got, max_size) ==
    IF got.raised # "none" THEN [raised |-> got.raised, response |-> NoneOpt]
    ELSE IF SizeCheck(got, max_size)
    THEN [raised |-> "ValueError: too large", response |-> NoneOpt]
    ELSE [raised |-> "none", response |-> Some(got)]

\* A caller starts fetch_with_size_limit; the server's two answers are fixed.
FetchStart ==
    /\ phase = "serving"
    /\ fetch.pc = "idle"
    /\ \E head \in HeadResults, got \in GetResults, max_size \in SizeLimits :
           fetch' = [pc |-> "head", head |-> head, got |-> got, max_size |-> max_size]
    /\ UNCHANGED <<surroundings, sessionVars, toolVars, registryVars, http, wire, fetches, verdict>>

\* The HEAD request and its size check.
FetchHead ==
    /\ fetch.pc = "head"
    /\ fetch' = [pc |-> "get", head |-> fetch.head, got |-> fetch.got,
                 max_size |-> fetch.max_size,
                 head_check |-> HeadCheck(fetch.head, fetch.max_size)]
    /\ UNCHANGED <<surroundings, sessionVars, toolVars, registryVars, http, wire, fetches, verdict>>

\* The GET request, the size checks, and the return or raise.
FetchGet ==
    /\ fetch.pc = "get"
    /\ fetch' = [pc |-> "done", head |-> fetch.head, got |-> fetch.got,
                 max_size |-> fetch.max_size,
                 result |-> fetch_with_size_limit(fetch.head, fetch.got, fetch.max_size)]
    /\ UNCHANGED <<surroundings, sessionVars, toolVars, registryVars, http, wire, fetches, verdict>>

\* ------------------------------------------------------------------------
\* SpecFetch: one fetch_with_size_limit call for every pair of answers
\* ------------------------------------------------------------------------
InitFetch ==
    /\ platform = "Linux"
    /\ argv = <<"typst-mcp">>
    /\ env = EmptyEnv
    /\ onPath = {"srt"}
    /\ probe = "exit0"
    /\ osres = [mk |-> "ok", fchflags |-> FALSE, flock |-> TRUE, setflag |-> TRUE]
    /\ caller = TypstCompile
    /\ Boot
    /\ ToolsIdle
    /\ RegistryUnused
    /\ HttpIdle

NextFetch ==
    \/ Startup
    \/ FetchStart
    \/ FetchHead
    \/ FetchGet

SpecFetch == InitFetch /\ [][NextFetch]_vars

\* ---------------------------------------------------------------------------
\* The URL filter put to single URLs (package_docs.py, is_safe_url 42-117).
\* ---------------------------------------------------------------------------

\* Host names as they are written in a URL.
WrittenNames ==
    {<<"localhost">>, <<"LOCALHOST">>, Dotted(<<"localhost", "localdomain">>),
     <<"metadata">>, Dotted(<<"Metadata", "Google", "Internal">>),
     Dotted(<<"metadata", "google", "com">>), Dotted(<<"github", "com">>),
     Dotted(<<"GitHub", "com">>), Dotted(<<"evil", "example">>), <<"localhost", ".">>,
     Dotted(<<"127", "1">>), <<"2130706433">>,
     Dotted(<<"api", "github", "com">>), Dotted(<<"objects", "githubusercontent", "com">>),
     Dotted(<<"Typst", "App">>), Dotted(<<"evil", "github", "com">>),
     <<".">> \o Dotted(<<"github", "com">>), Dotted(<<"github", "com">>) \o <<".">>,
     Dotted(<<"github", "com", "evil", "example">>), Dotted(<<"evilgithub", "com">>)}

WrittenAddresses4 ==
    {Dotted(q) : q \in {<<"127", "0", "0", "1">>, <<"0", "0", "0", "0">>,
                        <<"10", "0", "0", "1">>, <<"172", "16", "0", "1">>,
                        <<"172", "32", "0", "1">>, <<"192", "168", "0", "1">>,
                        <<"192", "0", "2", "1">>, <<"192", "0", "0", "1">>,
                        <<"169", "254", "169", "254">>, <<"169", "254", "0", "1">>,
                        <<"198", "18", "0", "1">>, <<"224", "0", "0", "1">>,
                        <<"240", "0", "0", "1">>, <<"8", "8", "8", "8">>,
                        <<"100", "64", "0", "1">>, <<"1", "1", "1", "1">>}}

WrittenAddresses6 == {<<"::1">>, <<"fe80::1">>, <<"ff02::1">>, <<"2606:4700::1">>}

\* A URL put together from its parts; an IPv6 address is written in brackets.
UrlFromParts(scheme, user, host, port, path) ==
    <<scheme, "//">> \o (IF user THEN <<UserInfo>> ELSE <<>>)
        \o (IF host \in WrittenAddresses6 THEN <<"[">> \o host \o <<"]">> ELSE host)
        \o (IF port THEN <<PortSuffix>> ELSE <<>>) \o path

\* Texts in which urlparse finds no host.
Hostless ==
    {<<>>, PathX, <<"x">>, <<"https:", "/", "x">>, <<"https:", "//">>,
     <<"https:", "//", "/", "x">>, <<"https:", "//", PortSuffix>>,
     <<"https:", "//", UserInfo, "/", "x">>}

UrlInputs ==
    {[host |-> Some(h), url |-> UrlFromParts(s, u, h, p, path)] :
        s \in SchemeTokens, u \in BOOLEAN,
        h \in WrittenNames \cup WrittenAddresses4 \cup WrittenAddresses6,
        p \in BOOLEAN, path \in {<<>>, PathX}}
    \cup {[host |-> NoneOpt, url |-> t] : t \in Hostless}

\* One call of is_safe_url, and of is_safe_redirect on the same text.
CheckUrl ==
    /\ phase = "serving"
    /\ \E i \in UrlInputs :
        verdict' = Some([url |-> i.url, host |-> i.host,
                         safe |-> is_safe_url(i.url),
                         redirect |-> is_safe_redirect(i.url)])
    /\ UNCHANGED <<surroundings, sessionVars, toolVars, registryVars, http, wire,
                   fetches, fetch>>

InitFilter == InitFetch

NextFilter == Startup \/ CheckUrl

SpecFilter == InitFilter /\ [][NextFilter]_vars

\* ---------------------------------------------------------------------------
\* validate_package_name put to single texts (package_docs.py 292-320).
\* ---------------------------------------------------------------------------

MaxName == 3
NameAtoms == {"a", "1", "-", ".", "/", BSL, NL, "A"}

\* Short texts over the atoms, and texts of 100 and of 101 characters.
NameTexts ==
    SeqsUpTo(NameAtoms, MaxName)
        \cup {<<Run99, "a">>, <<Run99, "a", "1">>, <<Run99, "-">>, <<Run101>>, <<Run99>>,
              <<"c", "e", "t", "z">>, <<"c", "e", "t", "z", NL>>}

\* One call of validate_package_name: it returns its argument or raises
\* ValueError.
CheckName ==
    /\ phase = "serving"
    /\ verdict = NoneOpt
    /\ \E name \in NameTexts :
        verdict' = Some([arg |-> name,
                         raised |-> ~validate_package_name(name),
                         result |-> IF validate_package_name(name) THEN Some(name)
                                    ELSE NoneOpt])
    /\ UNCHANGED <<surroundings, sessionVars, toolVars, registryVars, http, wire,
                   fetches, fetch>>

InitNames == InitFetch

NextNames == Startup \/ CheckName

SpecNames == InitNames /\ [][NextNames]_vars

\* ---------------------------------------------------------------------------
\* secure_copy_file on every kind of session (sandbox.py 874-940).
\* ---------------------------------------------------------------------------

CopySource == InTemp(UniquePdf(1))

\* One call of secure_copy_file(source, destination).
SecureCopy ==
    /\ phase = "serving"
    /\ \E source_exists \in BOOLEAN, first \in CommandEnds, second \in CommandEnds,
          dest_exists \in BOOLEAN :
           last_call' =
               [op |-> "secure_copy_file", source_exists |-> source_exists,
                ends |-> IF ~source_exists THEN <<>>
                         ELSE IF platform = "Windows"
                                 /\ first \in {"CalledProcessError", "FileNotFoundError"}
                         THEN <<first, second>> ELSE <<first>>,
                dest_exists |-> dest_exists,
                res |-> secure_copy_file(sandbox, platform, CopySource, OutPath,
                                         source_exists, first, second, dest_exists)]
    /\ UNCHANGED <<surroundings, sandbox, strict_mode, artifact, phase, toolVars,
                   registryVars, httpVars>>

InitCopy ==
    /\ platform \in Platforms
    /\ argv \in {<<"typst-mcp">>, <<"typst-mcp", "--disable-sandbox">>}
    /\ env = EmptyEnv
    /\ onPath \in {{}, {"srt"}, {"npx"}}
    /\ probe = "exit0"
    /\ osres = [mk |-> "ok", fchflags |-> FALSE, flock |-> (platform = "Linux"), setflag |-> TRUE]
    /\ caller = CopyCmd
    /\ Boot
    /\ ToolsIdle
    /\ RegistryUnused
    /\ HttpIdle

NextCopy == Startup \/ SecureCopy

SpecCopy == InitCopy /\ [][NextCopy]_vars

\* ---------------------------------------------------------------------------
\* The documentation bundle (server.py, build_docs_background 114-208 and
\* get_docs 211-244)
\* ---------------------------------------------------------------------------

\* A lock that anyone may take at any time.
LockShared(lock) == TRUE

\* anyio.Lock: it can be taken when nobody holds it.
LockFree(lock) == lock = 0

\* A loop condition that never ends the loop.
AlwaysWaiting(waited, wait_seconds) == TRUE

\* while time.time() - start < wait_seconds
StillWaiting(waited, wait_seconds) == waited < wait_seconds

SetBuild(b, rec) == [docs_state EXCEPT !.build[b] = rec]

DocsUnchanged == UNCHANGED <<surroundings, sessionVars, task, fs, served, registryVars, httpVars>>

\* build_docs_background(ctx) is called.
BuildCall(b) ==
    /\ phase = "serving"
    /\ docs_state.build[b].pc = "idle"
    /\ \E ctx \in BOOLEAN :
           docs_state' = SetBuild(b, [pc |-> "lock", ctx |-> ctx, how |-> "none"])
    /\ DocsUnchanged

\* async with lock: the lock is taken; the task yields once before the body.
BuildAcquire(b) ==
    /\ docs_state.build[b].pc \in {"lock", "relock", "errlock"}
    /\ LockFree(docs_state.lock)
    /\ docs_state' = [docs_state EXCEPT
                         !.lock = b,
                         !.build[b].pc = CASE @ = "lock" -> "check"
                                           [] @ = "relock" -> "store"
                                           [] OTHER -> "store_err"]
    /\ DocsUnchanged

\* if loaded or building: return; building = True (under the lock).
BuildCheck(b) ==
    /\ docs_state.build[b].pc = "check"
    /\ docs_state' =
           IF docs_state.loaded \/ docs_state.building
           THEN [docs_state EXCEPT !.lock = 0, !.build[b].pc = "returned"]
           ELSE [docs_state EXCEPT !.lock = 0, !.building = TRUE, !.build[b].pc = "work"]
    /\ DocsUnchanged

\* The work outside the lock: main.json is there, or is built in a worker
\* thread, and is read ("ok"), or the build reports failure ("failed"), or
\* something raises ("raised").
BuildWork(b) ==
    /\ docs_state.build[b].pc = "work"
    /\ \E how \in {"ok", "failed", "raised"} :
           docs_state' = [docs_state EXCEPT
                             !.build[b].how = IF how = "raised" THEN "none" ELSE how,
                             !.build[b].pc = IF how = "raised" THEN "errlock" ELSE "relock"]
    /\ DocsUnchanged

\* The result is stored under the lock.
BuildStore(b) ==
    /\ docs_state.build[b].pc = "store"
    /\ docs_state' =
           IF docs_state.build[b].how = "failed"
           THEN [docs_state EXCEPT !.error = TRUE, !.building = FALSE, !.lock = 0,
                                   !.build[b].pc = "notify", !.build[b].how = "none"]
           ELSE [docs_state EXCEPT !.docs = TRUE, !.loaded = TRUE, !.building = FALSE,
                                   !.lock = 0, !.build[b].pc = "notify",
                                   !.build[b].how = "none"]
    /\ DocsUnchanged

\* await ctx.info(...) / ctx.error(...) after the result was stored, still
\* inside the try block: with a ctx it may raise, and the handler takes over.
BuildNotify(b) ==
    /\ docs_state.build[b].pc = "notify"
    /\ \E raises \in BOOLEAN :
           /\ (raises => docs_state.build[b].ctx)
           /\ docs_state' = [docs_state EXCEPT
                                !.build[b].pc = IF raises THEN "errlock" ELSE "returned"]
    /\ DocsUnchanged

\* except Exception: error = str(e); building = False (under the lock).
BuildStoreErr(b) ==
    /\ docs_state.build[b].pc = "store_err"
    /\ docs_state' = [docs_state EXCEPT !.error = TRUE, !.building = FALSE, !.lock = 0,
                                        !.build[b].pc = "returned"]
    /\ DocsUnchanged

\* The call has ended.
BuildReturn(b) ==
    /\ docs_state.build[b].pc = "returned"
    /\ docs_state' = SetBuild(b, IdleBuild)
    /\ DocsUnchanged

\* get_docs(wait_seconds) is called: everything up to the loop.
GetCall ==
    /\ phase = "serving"
    /\ docs_state.get.pc = "idle"
    /\ \E wait_seconds \in 0..MaxWait :
           docs_state' =
               [docs_state EXCEPT
                   !.get = IF docs_state.loaded
                           THEN [pc |-> "done", wait |-> wait_seconds, waited |-> 0,
                                 result |-> IF docs_state.docs THEN "docs" ELSE "None"]
                           ELSE IF docs_state.building
                           THEN [pc |-> "poll", wait |-> wait_seconds, waited |-> 0,
                                 result |-> "none"]
                           ELSE [pc |-> "done", wait |-> wait_seconds, waited |-> 0,
                                 result |-> IF docs_state.error THEN "failed"
                                            ELSE "unavailable"]]
    /\ DocsUnchanged

\* The loop condition: go to sleep, or raise the still-building error.
GetTest ==
    /\ docs_state.get.pc = "poll"
    /\ docs_state' =
           IF StillWaiting(docs_state.get.waited, docs_state.get.wait)
           THEN [docs_state EXCEPT !.get.pc = "sleep"]
           ELSE [docs_state EXCEPT !.get.pc = "done", !.get.result = "still_building"]
    /\ DocsUnchanged

\* await anyio.sleep(0.5) is over, one or two half seconds later; loaded is
\* looked at.
GetWake ==
    /\ docs_state.get.pc = "sleep"
    /\ \E d \in 1..2 :
           LET now == IF docs_state.get.waited + d > MaxWait + 1 THEN MaxWait + 1
                      ELSE docs_state.get.waited + d
           IN  docs_state' =
                   IF docs_state.loaded
                   THEN [docs_state EXCEPT !.get.waited = now, !.get.pc = "done",
                                           !.get.result = IF docs_state.docs THEN "docs"
                                                          ELSE "None"]
                   ELSE [docs_state EXCEPT !.get.waited = now, !.get.pc = "poll"]
    /\ DocsUnchanged

\* The caller has its answer.
GetReturn ==
    /\ docs_state.get.pc = "done"
    /\ docs_state' = [docs_state EXCEPT !.get = IdleWait]
    /\ DocsUnchanged

BuildStepOf(b) ==
    \/ BuildCall(b)
    \/ BuildAcquire(b)
    \/ BuildCheck(b)
    \/ BuildWork(b)
    \/ BuildStore(b)
    \/ BuildNotify(b)
    \/ BuildStoreErr(b)
    \/ BuildReturn(b)

BuildStep == \E b \in Builders : BuildStepOf(b)

GetStep == GetCall \/ GetTest \/ GetWake \/ GetReturn

\* Calls of build_docs_background, concurrent and repeated.
InitBuild == InitFetch

NextBuild == Startup \/ BuildStep

SpecBuild == InitBuild /\ [][NextBuild]_vars

\* get_docs beside the build task that async_main starts (server.py 2413). The
\* event loop runs a get_docs that is ready to go on: its sleep ends and its
\* loop condition is evaluated.
InitDocs == InitFetch

NextDocs == Startup \/ BuildStepOf(1) \/ GetStep

SpecDocs == InitDocs /\ [][NextDocs]_vars /\ WF_vars(GetTest) /\ WF_vars(GetWake)

\* ---------------------------------------------------------------------------
\* Shutdown (server.py 2365-2375 and sandbox.py 595-597): the exit handler that
\* async_main registers after initialize_sandbox has returned, and the
\* finalizer of the session object
\* ---------------------------------------------------------------------------

\* cleanup_temp_dir at interpreter exit: shutil.rmtree(temp_dir,
\* ignore_errors=True) removes what it can; a file that carries the
\* immutability flag cannot be unlinked and stays, with its directory.
AtExit ==
    /\ phase = "serving"
    /\ phase' = "exited"
    /\ artifact' = IF artifact.exists /\ artifact.immutable THEN artifact ELSE NoFile
    /\ fs' = [f \in Files |-> Absent]
    /\ last_call' = [op |-> "rmtree"]
    /\ UNCHANGED <<surroundings, sandbox, strict_mode, task, served, docs_state,
                   registryVars, httpVars>>

\* TypestSandbox.__del__ when the module globals are torn down, after the exit
\* handlers have run: it calls cleanup(). Nothing else in the repository calls
\* cleanup(), and the interpreter need not run the finalizer at all.
Finalize ==
    /\ phase = "exited"
    /\ IsSome(sandbox)
    /\ \E how \in {"ok", "fails", "raises"} :
           LET res == cleanup(Get(sandbox), artifact, platform, how)
           IN  /\ sandbox' = Some(res.sb)
               /\ artifact' = res.file
    /\ phase' = "finalized"
    /\ last_call' = [op |-> "cleanup"]
    /\ UNCHANGED <<surroundings, strict_mode, toolVars, registryVars, httpVars>>

NextExit == Startup \/ RunSandboxed \/ AtExit \/ Finalize

SpecExit == Init /\ [][NextExit]_vars

\* ---------------------------------------------------------------------------
\* secure_write_file (sandbox.py 980-1064)
\* A file is [exists, content, mode]; the content is "old" (what the target held
\* before), "new" (all of the bytes handed in), "short" (a beginning of them)
\* or "none".
\* ---------------------------------------------------------------------------
NoPath == [exists |-> FALSE, content |-> "none", mode |-> "none"]

WriteModes == {"0o600", "0o644"}

\* The mode of a file mkstemp has just made.
MkstempMode == "0o600"

\* How the OS answers the calls of one secure_write_file: mkstemp, fchmod and
\* fsync succeed or raise; os.write raises, or returns after writing all of the
\* bytes or fewer (its return value is the number written); os.replace and
\* os.unlink succeed or raise.
WriteAnswers ==
    [mkstemp : {"ok", "raises"}, fchmod : {"ok", "raises"}, write : {"all", "fewer", "raises"},
     fsync : {"ok", "raises"}, replace : {"ok", "raises"}, unlink : {"ok", "raises"}]

\* What the temporary file holds after os.write(fd, content) has returned.
Written(answer) == IF answer = "all" THEN "new" ELSE "short"

\* os.unlink(temp_path) inside "try: ... except OSError: pass".
TryUnlink(temp, os_) == IF os_.unlink = "ok" THEN NoPath ELSE temp

\* secure_write_file is called.
WriteCall ==
    /\ phase = "serving"
    /\ last_call.op # "secure_write_file"
    /\ \E os_ \in WriteAnswers, mode \in WriteModes, prev \in {NoPath, [exists |-> TRUE, content |-> "old", mode |-> "0o644"]} :
           last_call' = [op |-> "secure_write_file", pc |-> "mkstemp", os |-> os_, mode |-> mode,
                         prev |-> prev, target |-> prev, temp |-> NoPath, raised |-> "none"]
    /\ UNCHANGED <<surroundings, sandbox, strict_mode, artifact, phase, toolVars,
                   registryVars, httpVars>>

\* tempfile.mkstemp(dir=parent_dir, prefix=".tmp_", suffix=".tmp")
WriteMkstemp ==
    /\ last_call.op = "secure_write_file"
    /\ last_call.pc = "mkstemp"
    /\ last_call' =
           IF last_call.os.mkstemp = "raises"
           THEN [last_call EXCEPT !.pc = "done", !.raised = "OSError"]
           ELSE [last_call EXCEPT
                    !.pc = "fill",
                    !.temp = [exists |-> TRUE, content |-> "none", mode |-> MkstempMode]]
    /\ UNCHANGED <<surroundings, sandbox, strict_mode, artifact, phase, toolVars,
                   registryVars, httpVars>>

\* The try block: fchmod (not on Windows), os.write, os.fsync. When one of them
\* raises, the handler closes the descriptor, unlinks the temporary file and
\* raises RuntimeError; the os.close(fd) of the finally clause then fails on
\* the closed descriptor and its OSError is what the caller gets.
WriteFill ==
    /\ last_call.op = "secure_write_file"
    /\ last_call.pc = "fill"
    /\ LET os_     == last_call.os
           chmod   == platform # "Windows"
           failed  == \/ chmod /\ os_.fchmod = "raises"
                      \/ os_.write = "raises"
                      \/ os_.fsync = "raises"
           filled  == [exists |-> TRUE,
                       content |-> IF (chmod /\ os_.fchmod = "raises") \/ os_.write = "raises"
                                   THEN "none" ELSE Written(os_.write),
                       mode |-> IF chmod /\ os_.fchmod = "ok" THEN last_call.mode
                                ELSE MkstempMode]
       IN  last_call' =
               IF failed
               THEN [last_call EXCEPT !.pc = "done", !.temp = TryUnlink(filled, os_),
                                      !.raised = "OSError"]
               ELSE [last_call EXCEPT !.pc = "replace", !.temp = filled]
    /\ UNCHANGED <<surroundings, sandbox, strict_mode, artifact, phase, toolVars,
                   registryVars, httpVars>>

\* os.replace(temp_path, target_path), and the look at the final permissions.
WriteReplace ==
    /\ last_call.op = "secure_write_file"
    /\ last_call.pc = "replace"
    /\ last_call' =
           IF last_call.os.replace = "raises"
           THEN [last_call EXCEPT !.pc = "done", !.temp = TryUnlink(last_call.temp, last_call.os),
                                  !.raised = "RuntimeError"]
           ELSE [last_call EXCEPT !.pc = "done", !.target = last_call.temp, !.temp = NoPath]
    /\ UNCHANGED <<surroundings, sandbox, strict_mode, artifact, phase, toolVars,
                   registryVars, httpVars>>

InitWrite == InitCopy

NextWrite == Startup \/ WriteCall \/ WriteMkstemp \/ WriteFill \/ WriteReplace

SpecWrite == InitWrite /\ [][NextWrite]_vars

\* ---------------------------------------------------------------------------
\* The package caches under concurrent calls (package_docs.py,
\* build_package_docs 655-770 and get_cached_package_docs 875-905; server.py
\* runs build_package_docs in worker threads). A document is [version,
\* built_by, complete]: built_by stands for what differs between two builds
\* (fetched_at, and what the time budget let in); complete is FALSE for a file
\* that open(..., "w") has truncated and json.dump has not finished.
\* ---------------------------------------------------------------------------
CetzName == <<"c", "e", "t", "z">>
TraversalName == <<".", ".", "/", "c">>
VersionOne == <<"1", ".", "0", ".", "0">>
TraversalVersion == <<".", ".", "/", "1">>

\* cache_dir / f"{package_name}_{version}.json", below the cache directory.
CacheFileName(name, version) == name \o <<"_">> \o version \o <<".json">>

\* The file lies in the cache directory: its name has no separator.
InCacheDir(name, version) == "/" \notin Range(CacheFileName(name, version))

CacheOps == {"build_package_docs", "get_cached_package_docs"}

WorkerKey(w) == CacheKey(workers[w].name, Some(workers[w].version))

FileOf(w) ==
    {f \in pkg_disk : f.name = workers[w].name /\ f.version = workers[w].version}

CacheAnswer(kind, doc) == [kind |-> kind, doc |-> doc]

WithFile(w, doc) ==
    (pkg_disk \ FileOf(w))
        \cup {[name |-> workers[w].name, version |-> workers[w].version, doc |-> doc]}

WithEntry(w, doc) ==
    {e \in pkg_mem : e.key # WorkerKey(w)} \cup {[key |-> WorkerKey(w), doc |-> doc]}

CacheUnchanged == UNCHANGED <<surroundings, sessionVars, toolVars, httpVars, remote, reg, calls>>

\* A handler calls build_package_docs(name, version) or
\* get_cached_package_docs(name, version) with what the client supplied.
CacheCall(w) ==
    /\ phase = "serving"
    /\ workers[w].pc = "idle"
    /\ \E op \in CacheOps, name \in {CetzName, TraversalName},
          version \in {VersionOne, TraversalVersion} :
           workers' = [workers EXCEPT ![w] =
                          [IdleWorker EXCEPT !.op = op, !.name = name, !.version = version,
                                             !.pc = IF op = "build_package_docs"
                                                    THEN "validate" ELSE "memory"]]
    /\ UNCHANGED <<pkg_mem, pkg_disk>>
    /\ CacheUnchanged

\* build_package_docs: validate_package_name, validate_version.
CacheValidate(w) ==
    /\ workers[w].pc = "validate"
    /\ workers' =
           IF validate_package_name(workers[w].name) /\ validate_version(workers[w].version)
           THEN [workers EXCEPT ![w].pc = "memory"]
           ELSE [workers EXCEPT ![w].pc = "done",
                                ![w].result = CacheAnswer("ValueError", NoDoc)]
    /\ UNCHANGED <<pkg_mem, pkg_disk>>
    /\ CacheUnchanged

\* if cache_key in _package_cache: return _package_cache[cache_key]
CacheMemory(w) ==
    /\ workers[w].pc = "memory"
    /\ LET hits == MemoryHit(WorkerKey(w), pkg_mem)
       IN  workers' =
               IF hits # {}
               THEN [workers EXCEPT ![w].pc = "done",
                                    ![w].result = CacheAnswer("doc", (CHOOSE e \in hits : TRUE).doc)]
               ELSE [workers EXCEPT ![w].pc = "disk"]
    /\ UNCHANGED <<pkg_mem, pkg_disk>>
    /\ CacheUnchanged

\* if cache_file.exists(): open it and json.load. build_package_docs lets the
\* decoding error of an unfinished file escape; get_cached_package_docs
\* catches it and returns None.
CacheDisk(w) ==
    /\ workers[w].pc = "disk"
    /\ LET here  == FileOf(w)
           doc   == (CHOOSE f \in here : TRUE).doc
           build == workers[w].op = "build_package_docs"
           seen  == [workers EXCEPT
                        ![w].touched = @ \cup {[name |-> workers[w].name,
                                                version |-> workers[w].version]}]
       IN  IF here = {}
           THEN /\ workers' = IF build
                              THEN [seen EXCEPT ![w].saw = "absent", ![w].pc = "fetch"]
                              ELSE [seen EXCEPT ![w].saw = "absent", ![w].pc = "done",
                                                ![w].result = CacheAnswer("None", NoDoc)]
                /\ pkg_mem' = pkg_mem
           ELSE IF doc.complete
           THEN /\ workers' = [seen EXCEPT ![w].saw = "complete", ![w].pc = "done",
                                           ![w].result = CacheAnswer("doc", doc)]
                /\ pkg_mem' = WithEntry(w, doc)
           ELSE /\ workers' = [seen EXCEPT
                                  ![w].saw = "incomplete", ![w].pc = "done",
                                  ![w].result = IF build THEN CacheAnswer("JSONDecodeError", NoDoc)
                                                ELSE CacheAnswer("None", NoDoc)]
                /\ pkg_mem' = pkg_mem
    /\ UNCHANGED pkg_disk
    /\ CacheUnchanged

\* build_package_docs fetches the package's files: the document is put
\* together, or the call raises.
CacheFetch(w) ==
    /\ workers[w].pc = "fetch"
    /\ \E ok \in BOOLEAN :
           workers' = IF ok THEN [workers EXCEPT ![w].pc = "open"]
                      ELSE [workers EXCEPT ![w].pc = "done",
                                           ![w].result = CacheAnswer("RuntimeError", NoDoc)]
    /\ UNCHANGED <<pkg_mem, pkg_disk>>
    /\ CacheUnchanged

\* with open(package_cache_file, "w"): the file is created, or emptied.
CacheOpen(w) ==
    /\ workers[w].pc = "open"
    /\ pkg_disk' = WithFile(w, [version |-> workers[w].version, built_by |-> w,
                                complete |-> FALSE])
    /\ workers' = [workers EXCEPT ![w].pc = "dump"]
    /\ UNCHANGED pkg_mem
    /\ CacheUnchanged

\* json.dump(docs, f) has written the document and the file is closed.
CacheDump(w) ==
    /\ workers[w].pc = "dump"
    /\ pkg_disk' = WithFile(w, [version |-> workers[w].version, built_by |-> w,
                                complete |-> TRUE])
    /\ workers' = [workers EXCEPT ![w].pc = "store"]
    /\ UNCHANGED pkg_mem
    /\ CacheUnchanged

\* _package_cache[cache_key] = docs; return docs
CacheStore(w) ==
    /\ workers[w].pc = "store"
    /\ LET doc == [version |-> workers[w].version, built_by |-> w, complete |-> TRUE]
       IN  /\ pkg_mem' = WithEntry(w, doc)
           /\ workers' = [workers EXCEPT ![w].pc = "done", ![w].result = CacheAnswer("doc", doc)]
    /\ UNCHANGED pkg_disk
    /\ CacheUnchanged

\* The caller has its answer.
CacheReturn(w) ==
    /\ workers[w].pc = "done"
    /\ workers' = [workers EXCEPT ![w] = IdleWorker]
    /\ UNCHANGED <<pkg_mem, pkg_disk>>
    /\ CacheUnchanged

CacheStep ==
    \E w \in Workers :
        \/ CacheCall(w)
        \/ CacheValidate(w)
        \/ CacheMemory(w)
        \/ CacheDisk(w)
        \/ CacheFetch(w)
        \/ CacheOpen(w)
        \/ CacheDump(w)
        \/ CacheStore(w)
        \/ CacheReturn(w)

InitCache == InitFetch

NextCache == Startup \/ CacheStep

SpecCache == InitCache /\ [][NextCache]_vars

\* ------------------------------------------------------------------------
\* Claims about start-up and the session (checked under Spec)
\* ------------------------------------------------------------------------
\* The state of the session: an enforcing state is one where initialize() set
\* the method and recorded the settings file it made.
SessionState ==
    IF phase = "boot" THEN "Uninitialized"
    ELSE LET sb == Get(sandbox)
             armed == sb.sandboxed /\ sb.settings_file # NoneVal
         IN  IF sb.disabled THEN "Disabled"
             ELSE IF armed /\ sb.sandbox_method = "srt-installed" THEN "ExternallyInstalled"
             ELSE IF armed /\ sb.sandbox_method = "srt-npx" THEN "AutoFetched"
             ELSE "Unavailable"

\* initialize() returned (it did not end in an exception).
Initialized ==
    phase = "serving" \/ (phase = "fatal" /\ last_call.op = "initialize" /\ last_call.ret # "raise")

DisableFlagGiven == "--disable-sandbox" \in Range(argv)
ProbeSucceeds == "npx" \in onPath /\ probe = "exit0"
NoHelper == ~DisableFlagGiven /\ "srt" \notin onPath /\ ~ProbeSucceeds

ExpectedState ==
    IF DisableFlagGiven THEN "Disabled"
    ELSE IF "srt" \in onPath THEN "ExternallyInstalled"
    ELSE IF ProbeSucceeds THEN "AutoFetched"
    ELSE "Unavailable"

C8_StateChosenOnce == Initialized => SessionState = ExpectedState

\* ------------------------------------------------------------------------
\* Claims about the tools (checked under SpecTools)
\* ------------------------------------------------------------------------
Enforced == phase = "serving" /\ SessionState \in {"ExternallyInstalled", "AutoFetched"}

\* Every command a tool has executed so far, with what subprocess.run received.
ExecutedBy(t) == {task[t].cmds[i] : i \in 1..Len(task[t].cmds)}

Executed == UNION {ExecutedBy(t) : t \in Tasks}

IsTypstOrPandoc(c) == ~c.str /\ c.v # <<>> /\ Head(c.v) \in {"typst", "pandoc"}
IsTypstCompile(c) == ~c.str /\ Len(c.v) >= 2 /\ c.v[1] = "typst" /\ c.v[2] = "compile"

\* ran is cmd behind the helper invocation of the session's method.
WrappedBy(sb, c) ==
    /\ ~c.ran.str
    /\ c.ran.v = SandboxPrefix(sb.sandbox_method, sb.settings_file) \o c.cmd.v
    /\ sb.settings_file = SettingsPath

\* C1: while the session is ExternallyInstalled or AutoFetched, every typst
\* and pandoc command that a tool has executed went to the operating system
\* wrapped in the sandbox helper; none ran bare.
C1_AlwaysWrapped ==
    Enforced =>
        \A t \in Tasks : \A c \in ExecutedBy(t) :
            IsTypstOrPandoc(c.cmd) => WrappedBy(Get(sandbox), c)

C1_Witness ==
    /\ Enforced
    /\ SessionState = "AutoFetched"
    /\ \E c \in ExecutedBy(1) : Head(c.cmd.v) = "pandoc" /\ Head(c.ran.v) = "npx"
    /\ \E c \in ExecutedBy(2) : Head(c.cmd.v) = "typst" /\ Head(c.ran.v) = "npx"

InFlight(t) == task[t].pc \notin {"idle", "done"} /\ task[t].status # "rejected"

\* The scratch files an invocation in flight writes or reads.
PathsOf(t) ==
    {InputFile(task[t].kind, t)} \cup OutputFiles(task[t].kind, t, MaxPages)

\* C3: two invocations in flight at once use disjoint scratch paths, so the
\* command of each reads the snippet its own invocation wrote and each result
\* derives from that snippet alone.
C3_DisjointPaths ==
    /\ \A t, u \in Tasks :
           (t # u /\ InFlight(t) /\ InFlight(u)) => PathsOf(t) \cap PathsOf(u) = {}
    /\ \A t \in Tasks :
           /\ (task[t].cmds # <<>> /\ task[t].read_in # Absent) => task[t].read_in = t
           /\ task[t].result \subseteq {t}

\* C10: when the server was started with --strict-sandbox, every typst compile
\* command a tool executes carries --root <scratch directory>; when it was
\* not, none does.
HasRoot(c) ==
    \E i \in 1..(Len(c.v) - 1) : c.v[i] = "--root" /\ c.v[i + 1] = TempDir

C10_StrictRoot ==
    \A c \in Executed : IsTypstCompile(c.cmd) => (HasRoot(c.cmd) <=> strict_mode)

\* ------------------------------------------------------------------------
\* Claims about the policy (checked under SpecPolicy)
\* ------------------------------------------------------------------------
Config == Get(sandbox).config

ListsAlwaysDenied(settings) ==
    Range(always_deny_read) \subseteq Range(settings.filesystem.denyRead)

\* C6: whatever the read mode, the --read-allow-only list and
\* TYPST_MCP_DENY_READ are, the settings that to_srt_settings yields, and the
\* settings file written from them, list every always-denied path under
\* filesystem.denyRead, also when the whitelist names such a path.
C6_AlwaysDeniedListed ==
    phase # "boot" =>
        /\ ListsAlwaysDenied(to_srt_settings(Config))
        /\ (artifact.exists => ListsAlwaysDenied(Get(artifact.content)))

C6_Witness ==
    /\ phase = "serving"
    /\ Config.read_whitelist_mode
    /\ expanduser("~/.ssh") \in Range(Get(Config.allow_read))
    /\ env["TYPST_MCP_DENY_READ"] = "/secret, ~/private,,"
    /\ artifact.exists

\* C7: a policy built on the same platform, scratch directory, working
\* directory and command line, under any other environment, has the same
\* allowed write paths and the same allowed network domains.
C7_EnvIndependent ==
    phase # "boot" =>
        \A other \in PolicyEnvs :
            LET built == SandboxConfig(TempDir, Cwd, parse_read_allow_only(argv), platform, other)
            IN  /\ built.allow_write = Config.allow_write
                /\ built.allowed_domains = Config.allowed_domains

\* ------------------------------------------------------------------------
\* Claims about wrap_command (checked under SpecWrap)
\* ------------------------------------------------------------------------
IsSuffix(a, b) == Len(a) <= Len(b) /\ SubSeq(b, Len(b) - Len(a) + 1, Len(b)) = a

\* The invocation each enforcing state puts in front, spelled out.
ExpectedPrefix(state) ==
    IF state = "ExternallyInstalled"
    THEN <<"srt", "--settings", SettingsPath, "--">>
    ELSE <<"npx", "-y", "@anthropic-ai/sandbox-runtime@0.0.15", "--settings", SettingsPath, "--">>

\* C9 as stated: wrap_command returns the command unchanged on a session that
\* does not enforce, the helper (or pinned npx) invocation with the settings
\* path followed by the original arguments on one that does, and the original
\* command is always a suffix of what it returns.
C9_OriginalIsSuffix ==
    last_call.op = "wrap" =>
        LET c == last_call.cmd
            res == last_call.res
        IN  /\ ~res.raised
            /\ res.out.str = c.str
            /\ IsSuffix(c.v, res.out.v)
            /\ IF SessionState \in {"ExternallyInstalled", "AutoFetched"}
               THEN IsSuffix(c.v, res.out.v) /\ Len(res.out.v) > Len(c.v)
               ELSE res.out = c

\* C9, amended: unchanged on a session that does not enforce. On an enforcing
\* session an argument list comes back as the invocation followed by the
\* original list; a command text comes back as a text that shlex.split takes
\* apart into the invocation followed by the words of the original text, and
\* a text with an unclosed quotation is refused (ValueError).
C9_WrapShape ==
    last_call.op = "wrap" =>
        LET c == last_call.cmd
            res == last_call.res
            st == SessionState
        IN  IF st \notin {"ExternallyInstalled", "AutoFetched"}
            THEN ~res.raised /\ res.out = c
            ELSE IF ~c.str
            THEN ~res.raised /\ res.out = ListCmd(ExpectedPrefix(st) \o c.v)
            ELSE IF shlex_split(c.v).ok
            THEN /\ ~res.raised
                 /\ res.out.str
                 /\ shlex_split(res.out.v)
                        = [ok |-> TRUE,
                           tokens |-> SeqMap(Word, ExpectedPrefix(st)) \o shlex_split(c.v).tokens]
            ELSE res.raised

C9_Witness ==
    /\ last_call.op = "wrap"
    /\ SessionState = "AutoFetched"
    /\ last_call.cmd.str
    /\ shlex_split(last_call.cmd.v).ok
    /\ DQ \in Range(last_call.cmd.v)
    /\ ~last_call.res.raised
    /\ ~IsSuffix(last_call.cmd.v, last_call.res.out.v)

\* ------------------------------------------------------------------------
\* Claims about the registry client (checked under SpecRegistry)
\* ------------------------------------------------------------------------
\* Every identifier in the URL of a request was validated earlier in the call.
UrlChecked(s) ==
    /\ s.url.api # "index" => <<"name", s.url.name>> \in s.checked
    /\ IsSome(s.url.version) => <<"version", Get(s.url.version)>> \in s.checked
    /\ IsSome(s.url.path) => <<"path", Get(s.url.path)>> \in s.checked

\* The call in progress was given the version / a path as an argument.
VersionSupplied ==
    IF reg.op = "build_package_docs" THEN HasVersion(reg.given) ELSE IsSome(reg.given)
PathSupplied == reg.op \in {"fetch_file_from_github", "fetch_directory_listing"}
NameSupplied == reg.op \notin {"search_packages", "list_all_packages"}

SuppliedInvalid ==
    /\ reg.op # "none"
    /\ \/ NameSupplied /\ ~validate_package_name(reg.name)
       \/ VersionSupplied /\ ~validate_version(Get(reg.given))
       \/ PathSupplied /\ ~validate_file_path(reg.path)

\* C4: every request of a registry call carries only identifiers that the call
\* validated before issuing it, and a call given an invalid name, version or
\* path issues no request and ends with a validation error.
C4_ValidatedBeforeRequest ==
    /\ \A s \in reg.sent : UrlChecked(s)
    /\ SuppliedInvalid =>
           /\ reg.sent = {}
           /\ reg.pc = "done" => reg.outcome = "ValueError"

\* fetch_file_from_github("cetz", "1.0.0", "../../etc/passwd") has raised
\* ValueError without a request.
C4_Witness ==
    /\ reg.op = "fetch_file_from_github"
    /\ reg.name = <<"c", "e", "t", "z">>
    /\ reg.given = Some(<<"1", ".", "0", ".", "0">>)
    /\ reg.path = <<".", ".", "/", ".", ".", "/", "etc", "/", "passwd">>
    /\ reg.pc = "done"
    /\ reg.outcome = "ValueError"
    /\ reg.sent = {}
    /\ remote.up

\* ------------------------------------------------------------------------
\* Claims about the HTTP client (checked under SpecHttp)
\* ------------------------------------------------------------------------
\* The wrapped transport is only handed URLs that pass is_safe_url.
OnlySafeUrlsSent == IsSome(wire) => is_safe_url(Get(wire).url)

\* C5: every request handed to the wrapped transport passes is_safe_url, and
\* every request sent to follow a redirect goes to an allow-listed redirect
\* host or a subdomain of one, whatever the form of the Location header.
C5_RedirectsStayAllowed ==
    IsSome(wire) =>
        /\ is_safe_url(Get(wire).url)
        /\ Get(wire).redirected => AllowedHost(Get(Hostname(Get(wire).url)))

\* ------------------------------------------------------------------------
\* Claims about the document caches (checked under SpecRegistry)
\* ------------------------------------------------------------------------
\* build_package_docs is about to consult the memory map or the cache file.
ConsultsCache ==
    /\ reg.op = "build_package_docs"
    /\ reg.pc = "run"
    /\ reg.todo # <<>>
    /\ Head(reg.todo).k \in {"memory", "disk"}

\* C11: a build without a version has resolved it to a published version
\* before either cache is consulted, and no key of the in-memory cache is
\* package@latest: such a key is neither looked up nor stored.
C11_NoLatestKey ==
    /\ \A e \in pkg_mem : e.key.tag # LatestTag
    /\ ConsultsCache => (HasVersion(reg.version) /\ reg.key.tag # LatestTag)

ExplicitBuild == reg.op = "build_package_docs" /\ HasVersion(reg.given)

AggregationRequests == {s \in reg.sent : s.url.api \in {"raw", "contents"}}

\* The memory map is consulted first, the cache file next, and only then is
\* anything fetched for the document.
LookupOrder ==
    reg.op = "build_package_docs" =>
        /\ "disk" \in Range(reg.trace) => reg.trace[1] = "memory"
        /\ AggregationRequests # {} =>
               (Len(reg.trace) >= 2 /\ SubSeq(reg.trace, 1, 2) = <<"memory", "disk">>)
        /\ (ExplicitBuild /\ reg.sent # {}) => AggregationRequests = reg.sent

\* A build that returned a document left that document in the memory map.
ReturnedIsCached ==
    (reg.op = "build_package_docs" /\ reg.pc = "done" /\ reg.outcome \in {"ok", "cached"}) =>
        \E e \in pkg_mem : e.key = reg.key /\ reg.result = Some(e.doc)

\* A build for a key the memory map holds returns the stored document at its
\* first lookup, with no request made and the caches left alone.
AnsweredFromMemory ==
    (/\ ExplicitBuild
     /\ reg.pc = "run"
     /\ reg.todo # <<>>
     /\ Head(reg.todo).k = "memory"
     /\ \E e \in pkg_mem : e.key = reg.key)
        => /\ reg'.pc = "done"
           /\ reg'.outcome = "cached"
           /\ reg'.sent = {}
           /\ \E e \in pkg_mem : e.key = reg.key /\ reg'.result = Some(e.doc)
           /\ pkg_mem' = pkg_mem
           /\ pkg_disk' = pkg_disk

\* C12: after a successful build_package_docs(package, version) the same call
\* returns the same document without a network request, and every build
\* consults the memory map before the cache file and the cache file before
\* any aggregation fetch.
C12_SecondCallCached ==
    /\ [](LookupOrder /\ ReturnedIsCached)
    /\ [][AnsweredFromMemory /\ pkg_mem \subseteq pkg_mem']_vars

\* The second of two builds of cetz 1.0.0 has returned from the memory map.
C12_Witness ==
    /\ calls = 2
    /\ ExplicitBuild
    /\ reg.name = <<"c", "e", "t", "z">>
    /\ reg.pc = "done"
    /\ reg.outcome = "cached"
    /\ reg.trace = <<"memory">>
    /\ reg.sent = {}
    /\ remote.fault = "none"

\* C13: every document in the cache directory and in the memory map comes
\* from an aggregation that ran all its phases, the examples/ and docs/ phase
\* included; a document built with that phase skipped is in neither cache.
C13_OnlyFullDocumentsCached ==
    /\ \A f \in pkg_disk : f.doc.full
    /\ \A e \in pkg_mem : e.doc.full

BuildDone == reg.op = "build_package_docs" /\ reg.pc = "done"
Wrote == {"store_file", "store_memory"} \cap Range(reg.trace) # {}

\* C14: a build that finds, after its aggregation fetches, that more than the
\* timeout has elapsed raises the timeout error and writes neither the cache
\* file nor the memory entry; when every answer of the repository takes longer
\* than the whole timeout, a build that is not answered from a cache ends in
\* the timeout error, never in a document.
C14_TimeoutIsFatal ==
    /\ (reg.op = "build_package_docs" /\ "deadline" \in Range(reg.trace)
            /\ reg.elapsed > reg.timeout)
           => (BuildDone /\ reg.outcome = "Timeout" /\ ~Wrote)
    /\ (BuildDone /\ remote.fault = "none" /\ remote.delay > reg.timeout /\ reg.sent # {})
           => (reg.outcome = "Timeout" /\ ~Wrote)

\* A build with timeout 1 against a repository that answers after 2 has
\* raised the timeout error at the final check.
C14_Witness ==
    /\ BuildDone
    /\ reg.timeout = 1
    /\ remote.fault = "none"
    /\ remote.delay = 2
    /\ reg.found # {}
    /\ "deadline" \in Range(reg.trace)
    /\ reg.outcome = "Timeout"
    /\ pkg_disk = {}

\* ------------------------------------------------------------------------
\* Claims about get_package_versions (checked under SpecRegistry)
\* ------------------------------------------------------------------------
RECURSIVE SplitDots(_, _)
SplitDots(v, cur) ==
    IF v = <<>> THEN <<cur>>
    ELSE IF Head(v) = "." THEN <<cur>> \o SplitDots(Tail(v), <<>>)
    ELSE SplitDots(Tail(v), Append(cur, Head(v)))

DigitValue(d) == CASE d = "0" -> 0 [] d = "1" -> 1 [] OTHER -> 2

\* The number a run of digits writes.
RECURSIVE NumberOf(_)
NumberOf(digits) ==
    IF digits = <<>> THEN 0
    ELSE 10 * NumberOf(SubSeq(digits, 1, Len(digits) - 1)) + DigitValue(digits[Len(digits)])

\* major.minor.patch, each a run of digits.
IsSemver(v) ==
    LET parts == SplitDots(v, <<>>)
    IN  Len(parts) = 3 /\ \A i \in 1..3 : parts[i] # <<>> /\ \A d \in Range(parts[i]) : IsDigit(d)

\* a is a later release than b.
SemverNewer(a, b) ==
    LET x == SeqMap(NumberOf, SplitDots(a, <<>>))
        y == SeqMap(NumberOf, SplitDots(b, <<>>))
    IN  \/ x[1] > y[1]
        \/ x[1] = y[1] /\ x[2] > y[2]
        \/ x[1] = y[1] /\ x[2] = y[2] /\ x[3] > y[3]

Published == \A v \in Range(remote.versions) : IsSemver(v)

\* C15: get_package_versions returns the published versions newest first by
\* semantic version (major, minor, patch as numbers), and the version a build
\* without a version resolves to is the highest published one.
C15_NewestFirst ==
    /\ (reg.op = "get_package_versions" /\ reg.pc = "done" /\ reg.outcome = "ok" /\ Published)
           => \A i, j \in 1..Len(Get(reg.result)) :
                  i < j => SemverNewer(Get(reg.result)[i], Get(reg.result)[j])
    /\ (reg.op = "build_package_docs" /\ ~HasVersion(reg.given) /\ HasVersion(reg.version)
            /\ Published)
           => \A v \in Range(remote.versions) : ~SemverNewer(v, Get(reg.version))

\* ------------------------------------------------------------------------
\* Claims about failures of registry requests (checked under SpecRegistry)
\* ------------------------------------------------------------------------
OneRequestOps ==
    {"get_package_versions", "fetch_file_from_github", "fetch_directory_listing",
     "search_packages", "list_all_packages"}

Answers == {s.ans : s \in reg.sent}
Raised == reg.outcome \in {"ValueError", "RuntimeError", "Timeout"}

\* C16: a registry operation whose request (or the redirect it is answered
\* with) is rejected by the URL safety filter fails with an error to its
\* caller; it does not return None or an empty result.
C16_RejectionIsFatal ==
    (reg.op \in OneRequestOps /\ reg.pc = "done" /\ "rejected" \in Answers) => Raised

\* C17: with valid identifiers fetch_file_from_github and
\* fetch_directory_listing return the content or None and never raise, and so
\* no failure of a readme, license, changelog, examples/ or docs/ fetch makes
\* build_package_docs fail once its aggregation has begun: it returns the
\* document (or stops at its own timeout).
FetchNeverRaises ==
    (reg.op \in {"fetch_file_from_github", "fetch_directory_listing"} /\ reg.pc = "done"
         /\ ~SuppliedInvalid)
        => reg.outcome \in {"ok", "None"}

C17_SubFetchFailuresAbsorbed ==
    /\ FetchNeverRaises
    /\ (BuildDone /\ AggregationRequests # {}) => reg.outcome \in {"ok", "Timeout"}

\* C18: get_package_versions reports a 404 as the not-found failure, an
\* expired request timeout as the timeout failure and any other HTTP or
\* connection failure as the transport failure; a 404 is never reported as
\* the generic or the transport kind.
C18_FailureKinds ==
    (reg.op = "get_package_versions" /\ reg.pc = "done" /\ reg.sent # {}) =>
        /\ "404" \in Answers => (Raised /\ reg.clause \notin {"generic", "http", "timeout"})
        /\ "timeout" \in Answers => (Raised /\ reg.clause = "timeout")
        /\ "transport" \in Answers => (Raised /\ reg.clause = "http")

\* ------------------------------------------------------------------------
\* Claims about fetch_with_size_limit (checked under SpecFetch)
\* ------------------------------------------------------------------------
\* C19: fetch_with_size_limit returns a response only if neither the
\* Content-Length declared on the GET response nor the size of the body
\* received exceeds max_size; if either does, it raises the size error and the
\* caller receives no content.
C19_SizeLimitEnforced ==
    fetch.pc = "done" =>
        LET got == fetch.got
            declared_over == IsSome(got.declared) /\ Get(got.declared) > fetch.max_size
            body_over == got.size > fetch.max_size
        IN  /\ IsSome(fetch.result.response) =>
                   (~declared_over /\ ~body_over /\ fetch.result.raised = "none")
            /\ (got.raised = "none" /\ (declared_over \/ body_over)) =>
                   (fetch.result.raised = "ValueError: too large"
                        /\ fetch.result.response = NoneOpt)

\* A body within the limit under a Content-Length over it has been refused.
C19_Witness ==
    /\ fetch.pc = "done"
    /\ fetch.got.raised = "none"
    /\ fetch.got.declared = Some(3)
    /\ fetch.got.size = 1
    /\ fetch.max_size = 2
    /\ fetch.result.raised = "ValueError: too large"
    /\ fetch.result.response = NoneOpt

\* ---------------------------------------------------------------------------
\* Claims about the URL filter.
\* ---------------------------------------------------------------------------

\* The local and metadata names, in any case, as a URL may write them.
LocalNames ==
    {<<"localhost">>, <<"LOCALHOST">>, Dotted(<<"localhost", "localdomain">>),
     <<"metadata">>, Dotted(<<"Metadata", "Google", "Internal">>),
     Dotted(<<"metadata", "google", "com">>)}

\* The literal addresses of the private, loopback, link-local, reserved and
\* multicast ranges among the written ones.
LocalAddresses ==
    {Dotted(q) : q \in {<<"127", "0", "0", "1">>, <<"0", "0", "0", "0">>,
                        <<"10", "0", "0", "1">>, <<"172", "16", "0", "1">>,
                        <<"192", "168", "0", "1">>, <<"192", "0", "2", "1">>,
                        <<"192", "0", "0", "1">>, <<"169", "254", "169", "254">>,
                        <<"169", "254", "0", "1">>, <<"198", "18", "0", "1">>,
                        <<"224", "0", "0", "1">>, <<"240", "0", "0", "1">>}}
    \cup {<<"::1">>, <<"fe80::1">>, <<"ff02::1">>}

\* C20: is_safe_url answers False for a URL without a host, for a URL whose
\* host is a blocked local or metadata name in any case, and for a URL whose
\* host is a literal address of a private, loopback, link-local, reserved or
\* multicast range; it answers True for every other URL with a host.
C20_FilterVerdict ==
    IsSome(verdict) =>
        LET v == Get(verdict)
        IN  v.safe = (/\ IsSome(v.host)
                      /\ Get(v.host) \notin LocalNames \cup LocalAddresses)

\* The metadata address, written with userinfo and a port, is refused.
C20_Witness ==
    /\ IsSome(verdict)
    /\ Get(verdict).url =
           UrlFromParts("http:", TRUE, Dotted(<<"169", "254", "169", "254">>), TRUE, PathX)
    /\ ~Get(verdict).safe

\* The written hosts that are, lower-cased, an allow-listed host or end with
\* a dot and an allow-listed host.
TrustedWritten ==
    {Dotted(<<"github", "com">>), Dotted(<<"GitHub", "com">>),
     Dotted(<<"api", "github", "com">>), Dotted(<<"objects", "githubusercontent", "com">>),
     Dotted(<<"Typst", "App">>), Dotted(<<"evil", "github", "com">>),
     <<".">> \o Dotted(<<"github", "com">>)}

\* C21: is_safe_redirect answers True exactly when is_safe_url accepts the
\* URL and its host, lower-cased, is an allow-listed host or ends with a dot
\* and an allow-listed host; a host that only begins with an allow-listed
\* name, such as github.com.evil.example, is refused.
C21_RedirectVerdict ==
    IsSome(verdict) =>
        LET v == Get(verdict)
        IN  v.redirect = (/\ v.safe
                          /\ IsSome(v.host)
                          /\ Get(v.host) \in TrustedWritten)

\* A subdomain of an allow-listed host was accepted as a redirect target.
C21_Witness ==
    /\ IsSome(verdict)
    /\ Get(verdict).host = Some(Dotted(<<"objects", "githubusercontent", "com">>))
    /\ Get(verdict).redirect

\* The lookalike github.com.evil.example passes the URL filter and is refused
\* as a redirect target.
C21_WitnessLookalike ==
    /\ IsSome(verdict)
    /\ Get(verdict).host = Some(Dotted(<<"github", "com", "evil", "example">>))
    /\ Get(verdict).safe
    /\ ~Get(verdict).redirect

\* ---------------------------------------------------------------------------
\* Claims about the package-name check.
\* ---------------------------------------------------------------------------

\* The package-name grammar: a lower-case letter or digit first, then only
\* lower-case letters, digits and hyphens, at most 100 characters in all.
InNameGrammar(s) ==
    /\ s # <<>>
    /\ IsLower(s[1]) \/ IsDigit(s[1])
    /\ \A i \in 1..Len(s) : IsLower(s[i]) \/ IsDigit(s[i]) \/ s[i] = "-"
    /\ StrLen(s) <= 100

\* C22: validate_package_name returns s for every s of the package-name
\* grammar and raises for every other text, a text with a line break
\* included.
C22_NameGrammar ==
    IsSome(verdict) =>
        LET v == Get(verdict)
        IN  /\ InNameGrammar(v.arg) => v.result = Some(v.arg)
            /\ ~InNameGrammar(v.arg) => v.raised

\* Away from texts that end in a line break the check is the grammar.
C22_GrammarButFinalBreak ==
    IsSome(verdict) =>
        LET v == Get(verdict)
        IN  (v.arg = <<>> \/ v.arg[Len(v.arg)] # NL) =>
                /\ v.raised = ~InNameGrammar(v.arg)
                /\ ~v.raised => v.result = Some(v.arg)

\* ---------------------------------------------------------------------------
\* Claims about the settings file of the session.
\* ---------------------------------------------------------------------------

\* The policy a settings file holds, without its denyWrite list.
WithoutDenyWrite(content) ==
    [content EXCEPT !.filesystem = [k \in DOMAIN @ \ {"denyWrite"} |-> @[k]]]

C24_CleanupRemovesArtifact ==
    (last_call.op = "cleanup" /\ Get(sandbox).settings_file # NoneVal) =>
        /\ ~artifact.exists
        /\ ~artifact.immutable
        /\ ~artifact.locked

\* After cleanup() the advisory lock is no longer held.
C24_LockReleased ==
    (last_call.op = "cleanup" /\ Get(sandbox).settings_file # NoneVal) => ~artifact.locked

\* After cleanup() the settings file carries no immutability flag.
C24_FlagRemoved ==
    (last_call.op = "cleanup" /\ Get(sandbox).settings_file # NoneVal) => ~artifact.immutable

\* ---------------------------------------------------------------------------
\* Claims about TYPST_MCP_DENY_READ.
\* ---------------------------------------------------------------------------

\* The paths a value of TYPST_MCP_DENY_READ lists, the home directory written
\* out.
ListedPaths(value) ==
    IF value = "/secret, ~/private,,"
    THEN {"/secret", HomeDir \o "/private"}
    ELSE {}

\* The settings built under the same surroundings with TYPST_MCP_DENY_READ unset.
WithoutDenyReadVariable ==
    to_srt_settings(SandboxConfig(TempDir, Cwd, parse_read_allow_only(argv), platform,
                                  [env EXCEPT !["TYPST_MCP_DENY_READ"] = Unset]))

\* The settings file lists every path of the variable and every baseline
\* path under denyRead, and its other lists are those built without the
\* variable.
DenyReadAdditive ==
    LET written == Get(artifact.content)
        without == WithoutDenyReadVariable
    IN  /\ ListedPaths(env["TYPST_MCP_DENY_READ"]) \subseteq Range(written.filesystem.denyRead)
        /\ Range(without.filesystem.denyRead) \subseteq Range(written.filesystem.denyRead)
        /\ written.filesystem.allowWrite = without.filesystem.allowWrite
        /\ written.network = without.network
        /\ ("allowRead" \in DOMAIN written.filesystem) = ("allowRead" \in DOMAIN without.filesystem)
        /\ "allowRead" \in DOMAIN written.filesystem =>
               written.filesystem.allowRead = without.filesystem.allowRead

\* C25: whatever TYPST_MCP_DENY_READ holds and in whichever read mode the
\* policy is built, every non-empty path the variable lists is in the
\* denyRead list of the settings file besides the baseline, and the allowed
\* read, write and network lists do not depend on the variable.
C25_DenyReadAdditive ==
    (phase # "boot" /\ artifact.exists) => DenyReadAdditive

\* Without --read-allow-only the variable is honoured as the claim says.
C25_AdditiveInBlacklistMode ==
    (phase # "boot" /\ artifact.exists /\ ~Config.read_whitelist_mode) => DenyReadAdditive

\* ---------------------------------------------------------------------------
\* Claims about secure_copy_file.
\* ---------------------------------------------------------------------------

\* The OS copy commands for the call's source and destination.
OsCopyCommands ==
    {ListCmd(<<"cp", CopySource, OutPath>>),
     ListCmd(<<"cmd", "/c", "copy", "/Y", "\\tmp\\typst-mcp\\output_1.pdf", "\\work\\out.pdf">>)}

\* C26: secure_copy_file raises the source-missing error and runs no command
\* when the source does not exist; otherwise it runs only OS copy commands,
\* each through the sandbox wrapper, raises the failure of its last command,
\* raises the destination-not-created error when that command succeeded and
\* the destination is absent, and returns only when the destination exists.
C26_CopyOutcome ==
    last_call.op = "secure_copy_file" =>
        LET c == last_call
            last_end == c.ends[Len(c.ends)]
        IN  /\ ~c.source_exists => c.res.raised = "SourceMissing" /\ c.res.cmds = <<>>
            /\ c.source_exists =>
                   /\ Len(c.res.cmds) = Len(c.ends)
                   /\ \A i \in 1..Len(c.res.cmds) :
                          /\ c.res.cmds[i].cmd \in OsCopyCommands
                          /\ c.res.cmds[i].ran = wrap_command(sandbox, c.res.cmds[i].cmd).out
                          /\ Enforced => c.res.cmds[i].ran # c.res.cmds[i].cmd
                   /\ last_end # "ok" => c.res.raised = last_end
                   /\ (last_end = "ok" /\ ~c.dest_exists) => c.res.raised = "RuntimeError"
            /\ c.res.raised = "ok" => c.dest_exists

\* The copy command reported success under an enforcing session and the
\* destination is absent: the call raised the destination-not-created error.
C26_Witness ==
    /\ last_call.op = "secure_copy_file"
    /\ Enforced
    /\ last_call.source_exists
    /\ last_call.ends = <<"ok">>
    /\ ~last_call.dest_exists
    /\ last_call.res.raised = "RuntimeError"

\* ---------------------------------------------------------------------------
\* Claims about the documentation bundle.
\* ---------------------------------------------------------------------------

\* The call is past the check of the building flag and loads or builds the
\* bundle: its result is not stored yet.
Working(b) == docs_state.build[b].pc \in {"work", "relock", "store"}

AtMostOneWorking == \A a \in Builders, b \in Builders : Working(a) /\ Working(b) => a = b

\* Once the bundle is loaded no call starts to load or build.
NoWorkOnceLoaded ==
    \A b \in Builders :
        (docs_state.loaded /\ docs_state'.build[b].pc = "work") => docs_state.build[b].pc = "work"

\* A call that finds loaded or building set returns and leaves the state alone.
ReturnsUnchanged ==
    \A b \in Builders :
        (/\ docs_state.build[b].pc = "check"
         /\ docs_state.loaded \/ docs_state.building
         /\ docs_state'.build[b].pc # "check") =>
            /\ docs_state'.build[b].pc = "returned"
            /\ docs_state'.loaded = docs_state.loaded
            /\ docs_state'.building = docs_state.building
            /\ docs_state'.error = docs_state.error
            /\ docs_state'.docs = docs_state.docs

\* C27: among any concurrent or repeated calls of build_docs_background at
\* most one is past the check of the building flag, loading or building the
\* bundle, at any time; once the bundle is loaded no later call loads or
\* builds; a call that finds loaded or building set returns without changing
\* the state.
C27_BuildAtMostOnce ==
    []AtMostOneWorking /\ [][NoWorkOnceLoaded /\ ReturnsUnchanged]_vars

\* At most one call loads or builds at any time.
C27_AtMostOneWorking == AtMostOneWorking

\* The building flag is set while a call loads or builds.
C27_FlagWhileWorking == (\E b \in Builders : Working(b)) => docs_state.building

\* The other two parts of C27 hold.
C27_LoadedAndReturn == [][NoWorkOnceLoaded /\ ReturnsUnchanged]_vars

Polling == docs_state.get.pc \in {"poll", "sleep"}

\* What get_docs has answered is justified, and its wait stays within
\* wait_seconds and the sleep that was under way when they ran out.
GetAnswerJustified ==
    /\ docs_state.get.result = "docs" => docs_state.loaded /\ docs_state.docs
    /\ docs_state.get.result = "still_building" =>
           docs_state.get.waited >= docs_state.get.wait
    /\ docs_state.get.result \in {"failed", "unavailable"} => docs_state.get.waited = 0
    /\ Polling => docs_state.get.waited <= docs_state.get.wait + 1

\* Called with the bundle loaded, get_docs returns it at once.
GetImmediate ==
    (docs_state.get.pc = "idle" /\ docs_state.loaded /\ docs_state'.get.pc # "idle") =>
        /\ docs_state'.get.pc = "done"
        /\ docs_state'.get.result = "docs"

\* Waking up with the bundle loaded, get_docs returns it.
GetObserved ==
    (docs_state.get.pc = "sleep" /\ docs_state.loaded /\ docs_state'.get # docs_state.get) =>
        /\ docs_state'.get.pc = "done"
        /\ docs_state'.get.result = "docs"

\* C28: get_docs ends within its bounded wait: it returns the bundle at once
\* when it is loaded; while a build is in progress it polls, returns the
\* bundle when it sees it loaded and raises the still-building error once
\* wait_seconds have passed; whatever the build does, a get_docs that polls
\* comes to an end.
C28_GetDocsBounded ==
    /\ []GetAnswerJustified
    /\ [][GetImmediate /\ GetObserved]_vars
    /\ (Polling ~> docs_state.get.pc = "done")

\* get_docs(wait_seconds=1 s) raised the still-building error while a build
\* was still in progress.
C28_Witness ==
    /\ docs_state.get.pc = "done"
    /\ docs_state.get.result = "still_building"
    /\ docs_state.get.wait = 2
    /\ docs_state.building
    /\ ~docs_state.loaded

\* ------------------------------------------------------------------------
\* C29, C30: the temporary files of the tools, requests one after the other
\* ------------------------------------------------------------------------
NoInvocationInProgress == \A t \in Tasks : task[t].pc \in {"idle", "done"}

\* C29: on every exit path of a conversion or compile tool the removal of the
\* temporary input and output files it created is attempted before it returns,
\* so that once every invocation has completed no file is left in the scratch
\* directory (no removal fails when the requests come one after the other:
\* every file a finally block unlinks is there).
C29_NoTempFilesRemain ==
    NoInvocationInProgress => \A f \in Files : fs[f] = Absent

\* The part of C29 that the code keeps: typst_snippet_to_pdf leaves neither its
\* input nor its PDF behind, however it ends.
C29_PdfToolCleans ==
    NoInvocationInProgress =>
        \A t \in Tasks : fs[UniqueTyp(t)] = Absent /\ fs[UniquePdf(t)] = Absent

\* An invocation that ran its command and has returned an error.
CommandFailed(t) ==
    /\ task[t].pc = "done"
    /\ task[t].read_in # Absent
    /\ task[t].status \in {"error", "INVALID"}

LeftBehindRemoved ==
    \A t \in Tasks :
        CommandFailed(t) =>
            \A f \in OutputFiles(task[t].kind, t, task[task[t].read_in].npages) : fs[f] = Absent

OwnPagesOnly ==
    \A t \in Tasks :
        task[t].kind = "image" /\ task[t].status = "ok" => task[t].result = {t}

\* C30: when the command of an invocation fails or is killed, the output files it
\* may have left are removed before the invocation returns, and no invocation
\* takes them for valid output: the image typst_snippet_to_image returns is made
\* of the pages of its own compile only.
C30_NoStaleOutput == LeftBehindRemoved /\ OwnPagesOnly

\* The two parts of C30, each on its own.
C30_LeftBehindRemoved == LeftBehindRemoved
C30_OwnPagesOnly == OwnPagesOnly

\* ------------------------------------------------------------------------
\* C40: what get_docs reports when its wait ends
\* ------------------------------------------------------------------------
RaisesStillBuilding ==
    docs_state.get.result # "still_building" /\ docs_state'.get.result = "still_building"

\* C40: get_docs raises the still-building error only if a build is in progress
\* when its wait ends; a build that failed during the wait is not reported as
\* still building.
C40_StillBuildingOnlyWhileBuilding == [][RaisesStillBuilding => docs_state.building]_vars

\* ------------------------------------------------------------------------
\* C34: who holds the lock when _docs_state is read or written
\* ------------------------------------------------------------------------
\* get_docs has no "async with": it never holds the lock.
GetHoldsLock == FALSE

\* A step of build_docs_background that reads or writes loaded, building, error
\* or docs.
BuildAccess(b) ==
    /\ docs_state.build[b].pc \in {"check", "store", "store_err"}
    /\ docs_state'.build[b].pc # docs_state.build[b].pc

\* A step of get_docs that reads loaded, building, error or docs.
GetAccess ==
    /\ docs_state.get.pc \in {"idle", "sleep"}
    /\ docs_state'.get.pc # docs_state.get.pc

\* C34: every read and every write of the loaded/building state is performed
\* while the one lock is held by the task that reads or writes.
C34_AccessUnderLock ==
    [][(\A b \in Builders : BuildAccess(b) => docs_state.lock = b)
          /\ (GetAccess => GetHoldsLock)]_vars

\* The part of C34 that the code keeps: build_docs_background reads and writes
\* the state only while it holds the lock.
C34_BuildUnderLock == [][\A b \in Builders : BuildAccess(b) => docs_state.lock = b]_vars

\* ------------------------------------------------------------------------
\* C32: the HEAD probe of fetch_with_size_limit (checked under SpecFetch)
\* ------------------------------------------------------------------------
\* The probe was answered with a Content-Length over the limit.
HeadOverLimit ==
    /\ fetch.pc \in {"get", "done"}
    /\ fetch.head.raised = "none"
    /\ IsSome(fetch.head.declared)
    /\ Get(fetch.head.declared) > fetch.max_size

\* C32: when the HEAD probe declares a Content-Length over max_size the call
\* fails with the size error and no GET request is issued; when the probe fails
\* or carries no Content-Length the GET is still attempted.
C32_ProbeOverLimitAborts ==
    /\ HeadOverLimit =>
           (fetch.pc = "done" /\ fetch.result.raised = "ValueError: too large")
    /\ (fetch.pc = "done" /\ ~HeadOverLimit /\ fetch.got.raised = "none"
            /\ ~SizeCheck(fetch.got, fetch.max_size)) =>
           fetch.result.response = Some(fetch.got)

\* The part of C32 that the code keeps: a probe that fails or has no
\* Content-Length does not stop the GET, whose response is returned.
C32_ProbeFailureNotFatal ==
    (fetch.pc = "done" /\ ~HeadOverLimit /\ fetch.got.raised = "none"
         /\ ~SizeCheck(fetch.got, fetch.max_size)) =>
        fetch.result.response = Some(fetch.got)

\* ------------------------------------------------------------------------
\* C39: --read-allow-only and the read mode (checked under SpecPolicy)
\* ------------------------------------------------------------------------
FlagGiven == "--read-allow-only" \in Range(argv)

FlagIsLast == argv[Len(argv)] = "--read-allow-only"

\* C39: whenever argv contains --read-allow-only the policy initialize_sandbox
\* builds is in whitelist read mode, and the settings written from it carry an
\* allowRead list, also when the flag is the last argument or its value names
\* no path.
C39_FlagMeansWhitelist ==
    (phase # "boot" /\ FlagGiven) =>
        /\ Config.read_whitelist_mode
        /\ (artifact.exists =>
                "allowRead" \in DOMAIN Get(artifact.content).filesystem)

\* The part of C39 that the code keeps: a flag followed by any value, even one
\* that names no path, gives the whitelist mode.
C39_WhitelistWhenValueGiven ==
    (phase # "boot" /\ FlagGiven /\ ~FlagIsLast) =>
        /\ Config.read_whitelist_mode
        /\ (artifact.exists =>
                "allowRead" \in DOMAIN Get(artifact.content).filesystem)

\* ------------------------------------------------------------------------
\* C38: the sandboxed flag and the recorded artifact (checked under Spec)
\* ------------------------------------------------------------------------
FlagMatchesArtifact ==
    Get(sandbox).sandboxed <=> Get(sandbox).settings_file # NoneVal

\* C38: once initialize() has been called, however it ended, the session's
\* sandboxed flag is True exactly when an artifact path is recorded, and
\* initialize() returned True exactly in that case.
C38_FlagIffArtifact ==
    phase # "boot" =>
        /\ FlagMatchesArtifact
        /\ last_call.op = "initialize" =>
               (last_call.ret = "True" <=> Get(sandbox).sandboxed)

\* C38 for the sessions that serve: server_health reports sandbox_enabled (the
\* sandboxed flag) only when wrap_command prefixes commands.
C38_HealthMatchesWrapping ==
    phase = "serving" =>
        (Get(sandbox).sandboxed =>
            \A cmd \in SessionCommands : wrap_command(sandbox, cmd).out # cmd)

\* ------------------------------------------------------------------------
\* C33: the order of cleanup() and the removal of the scratch directory
\* (checked under SpecExit)
\* ------------------------------------------------------------------------
\* The step in which the exit handler removes the scratch directory.
RemovesScratchDir == phase = "serving" /\ phase' = "exited"

\* C33: in every shutdown the session's cleanup() has run, and the artifact
\* carries neither flag nor lock, when the exit handler removes the scratch
\* directory.
C33_CleanupBeforeRemoval ==
    [][RemovesScratchDir =>
           (last_call.op = "cleanup" /\ ~artifact.immutable /\ ~artifact.locked)]_vars

\* What the order is for: once the exit handler has run the artifact is gone.
C33_ArtifactRemovedAtExit == phase \in {"exited", "finalized"} => ~artifact.exists

\* ------------------------------------------------------------------------
\* C35: secure_write_file is all-or-nothing (checked under SpecWrite)
\* ------------------------------------------------------------------------
Writing == last_call.op = "secure_write_file"

\* The target holds what it held before the call, or all of the new content.
OldOrNew ==
    \/ last_call.target = last_call.prev
    \/ last_call.target.exists /\ last_call.target.content = "new"

\* C35: at every step of secure_write_file the target holds its previous
\* content or the complete new content; when a step fails the temporary file is
\* removed (unless the removal itself fails), the target is unchanged and the
\* error is raised; on success no temporary file remains and, where
\* permissions are set (not on Windows), the target has the requested mode.
C35_AllOrNothing ==
    Writing =>
        /\ OldOrNew
        /\ (last_call.pc = "done" /\ last_call.raised # "none") =>
               /\ last_call.target = last_call.prev
               /\ (last_call.temp.exists => last_call.os.unlink = "raises")
        /\ (last_call.pc = "done" /\ last_call.raised = "none") =>
               /\ ~last_call.temp.exists
               /\ last_call.target.exists
               /\ last_call.target.content = "new"
               /\ (platform # "Windows" => last_call.target.mode = last_call.mode)

\* The part of C35 that the code keeps: a call that raises leaves the target as
\* it was and no temporary file unless the unlink failed; a call that returns
\* has replaced the target, with the requested mode, and left no temporary file.
C35_FailureLeavesTarget ==
    Writing =>
        /\ (last_call.pc # "done" \/ last_call.raised # "none") =>
               last_call.target = last_call.prev
        /\ (last_call.pc = "done" /\ last_call.raised # "none" /\ last_call.temp.exists) =>
               last_call.os.unlink = "raises"
        /\ (last_call.pc = "done" /\ last_call.raised = "none") =>
               /\ ~last_call.temp.exists
               /\ last_call.target.exists
               /\ last_call.target.content \in {"new", "short"}
               /\ (platform # "Windows" => last_call.target.mode = last_call.mode)

\* ------------------------------------------------------------------------
\* C31, C36, C37: the package caches (checked under SpecCache)
\* ------------------------------------------------------------------------
\* Every in-memory entry and every finished cache file is still there, as it
\* was, after the step.
EntriesKept ==
    /\ pkg_mem \subseteq pkg_mem'
    /\ \A f \in pkg_disk : f.doc.complete => f \in pkg_disk'

\* C31: once an in-memory entry or an on-disk cache file exists for a package
\* and version, no later operation replaces, rewrites or removes it, also when
\* several build_package_docs calls for that package and version run at the
\* same time.
C31_EntriesImmutable == [][EntriesKept]_vars

\* The part of C31 that the code keeps: with one registry call at a time
\* (SpecRegistry) nothing stored is replaced or removed.
C31_ImmutableWhenSequential == [][pkg_mem \subseteq pkg_mem' /\ pkg_disk \subseteq pkg_disk']_vars

\* C36: every cache file path the package-documentation code tests or opens
\* lies in the cache directory and is made of a name and a version that passed
\* validation; get_cached_package_docs touches no file for identifiers that fail
\* validate_package_name or validate_version.
C36_OnlyValidatedPaths ==
    \A w \in Workers :
        \A t \in workers[w].touched :
            /\ validate_package_name(t.name)
            /\ validate_version(t.version)
            /\ InCacheDir(t.name, t.version)

\* The part of C36 that the code keeps: build_package_docs touches validated
\* paths in the cache directory only.
C36_BuildValidates ==
    \A w \in Workers :
        workers[w].op = "build_package_docs" =>
            \A t \in workers[w].touched :
                /\ validate_package_name(t.name)
                /\ validate_version(t.version)
                /\ InCacheDir(t.name, t.version)

\* C37: a reader of the on-disk cache that runs beside a build_package_docs
\* writing the same file sees no file or loads the complete document; it never
\* finds a file that exists with incomplete content and never fails on one.
C37_NoPartialFileSeen ==
    \A w \in Workers :
        /\ workers[w].saw # "incomplete"
        /\ workers[w].result.kind # "JSONDecodeError"

====
